---- MODULE Spec2Model ----
(***************************************************************************)
(* btdt: the storage abstraction (filesystem and in-memory back-ends) and  *)
(* the local cache built on it (get / set / clean).                        *)
(*                                                                         *)
(* A file's content is a sequence of units.  A blob's unit is one byte; a  *)
(* meta file's unit is one whole serialized record (META_MAX_SIZE bytes,   *)
(* which LocalCache always hands to the storage in a single write_all).    *)
(***************************************************************************)
EXTENDS Integers, Sequences, FiniteSets, TLC

\* ------------------------------------------------------------------ bounds
NumKeys == 2
MaxBlobs == 2
MaxLen == 1
MaxTime == 1
MaxAge == 0
MaxSize == 0
MaxCalls == 2
MaxConcurrent == 2
MaxOpen == 1
NumRaw == 2
RawLen == 2

Keys == 1..NumKeys
BlobIds == 1..MaxBlobs
Bytes == {1, 2}
RawIds == 1..NumRaw
Backends == {"fs", "mem"}

\* Option<T>::None of clean's two limits
NoLimit == -1
\* A full meta record is one unit of a meta file
META_MAX_SIZE == 1

\* ------------------------------------------------------------------- paths
MetaDir == "meta"
BlobDir == "blob"
RootDir == "root"

\* LocalCache::meta_path, mutated: the path is made of the hash alone, and
\* the keys' hashes collide
meta_path_of_hash(key) == <<MetaDir, 1>>
\* LocalCache::meta_path: format!("/meta/{hash}/{key}")
meta_path(key) == <<MetaDir, key>>
blob_path(blob_id) == <<BlobDir, blob_id>>
RawPath == <<RootDir, 0>>

Paths == {meta_path(k) : k \in Keys} \cup {blob_path(b) : b \in BlobIds} \cup {RawPath}

\* Storage writers: the blob writer and the meta writers of a cache writer,
\* the meta writer of a get in progress, and the writers of direct storage
\* clients.
SWIds == {<<"cwb", w, 0>> : w \in BlobIds}
         \cup {<<"cwm", w, i>> : w \in BlobIds, i \in 1..NumKeys}
         \cup {<<"get", 1, 0>>}
         \cup {<<"raw", r, 0>> : r \in RawIds}

Absent == [exists |-> FALSE, data |-> <<>>]
FileOf(d) == [exists |-> TRUE, data |-> d]
NoWriter == [path |-> <<"none", 0>>, buf |-> <<>>, open |-> FALSE, linked |-> FALSE]
NewWriter(p) == [path |-> p, buf |-> <<>>, open |-> TRUE, linked |-> TRUE]

VARIABLES backend, now, storage, cw, gp, cl, ghost, sf, app

vars == <<backend, now, storage, cw, gp, cl, ghost, sf, app>>

\* ----------------------------------------------------------------- storage
\* storage = [files, dirs, sw]:
\*   files[p]  the file reachable under path p (for "mem": the FileNode linked
\*             in the directory map; for "fs": the directory entry's inode)
\*   dirs      the top-level directories that exist
\*   sw[id]    the writers handed out by put.  `linked`: for "mem" the
\*             writer's FileNode is still the one in the directory map; for
\*             "fs" the writer's temp file still exists.

\* Storage::put.  FilesystemStorage::put creates the parent directories and a
\* StagedFile (a sibling temp file).  InMemoryStorage::put creates the parent
\* directories and DirNode::create_file replaces whatever file node is linked
\* under the name by a new empty FileNode, whose writer it returns; writers of
\* the node that was replaced keep their (now unlinked) node.
StPut(st, id, p) ==
    IF backend = "mem"
    THEN [files |-> [st.files EXCEPT ![p] = FileOf(<<>>)],
          dirs  |-> st.dirs \cup {p[1]},
          sw    |-> [j \in SWIds |->
                       IF j = id THEN NewWriter(p)
                       ELSE IF st.sw[j].open /\ st.sw[j].path = p
                            THEN [st.sw[j] EXCEPT !.linked = FALSE]
                            ELSE st.sw[j]]]
    ELSE [files |-> st.files,
          dirs  |-> st.dirs \cup {p[1]},
          sw    |-> [st.sw EXCEPT ![id] = NewWriter(p)]]

\* Write::write.  StagedFile::write appends to the temp file.
\* FileWriter::write appends to the writer's FileNode, which is what readers
\* of the path see as long as the node is linked.
StWrite(st, id, u) ==
    LET w == st.sw[id] IN
    IF backend = "mem" /\ w.linked
    THEN [st EXCEPT !.files[w.path] = FileOf(Append(st.files[w.path].data, u)),
                    !.sw[id].buf = Append(w.buf, u)]
    ELSE [st EXCEPT !.sw[id].buf = Append(w.buf, u)]

\* Close::close, mutated: the writer goes away and nothing is published
StCloseNoRename(st, id) == [st EXCEPT !.sw[id] = NoWriter]

\* Close::close.  StagedFile::close renames the temp file onto the target.
\* SelfClosing<FileWriter>::close does nothing.
StClose(st, id) ==
    LET w == st.sw[id] IN
    IF backend = "mem"
    THEN [st EXCEPT !.sw[id] = NoWriter]
    ELSE [st EXCEPT !.files[w.path] = FileOf(w.buf), !.sw[id] = NoWriter]

\* Close::close of a StagedFile whose fs::rename fails: finalized is set, the
\* target is left as it was, and Drop does nothing more
StCloseRenamesAnyway(st, id) == StClose(st, id)

StCloseFails(st, id) == [st EXCEPT !.sw[id] = NoWriter]

\* Drop for StagedFile of a writer that was not closed: finalize, the temp
\* file with what was written so far is renamed onto the target
StDrop(st, id) == StClose(st, id)

\* Storage::delete of an existing file (the callers handle NotFound).  In
\* memory the node leaves the directory map; its writers keep it.
StDelete(st, p) ==
    IF backend = "mem"
    THEN [st EXCEPT !.files[p] = Absent,
                    !.sw = [j \in SWIds |->
                              IF st.sw[j].open /\ st.sw[j].path = p
                              THEN [st.sw[j] EXCEPT !.linked = FALSE]
                              ELSE st.sw[j]]]
    ELSE [st EXCEPT !.files[p] = Absent]

\* Storage::get: the file under the path, or NotFound (exists = FALSE)
StGet(st, p) == st.files[p]

\* Storage::exists_file
StExistsFile(st, p) == StGet(st, p).exists

\* Storage::list of a directory (the fan-out level below /meta and /blob is
\* flattened): the published files, and for the filesystem back-end also the
\* temp files `<target>.tmp.<suffix>` of the open writers.
StList(st, dir) ==
    {[path |-> p, tmp |-> FALSE, id |-> <<"none", 0, 0>>, size |-> Len(st.files[p].data)] :
        p \in {q \in Paths : q[1] = dir /\ st.files[q].exists}}
    \cup
    (IF backend = "fs"
     THEN {[path |-> st.sw[j].path, tmp |-> TRUE, id |-> j, size |-> Len(st.sw[j].buf)] :
              j \in {i \in SWIds : st.sw[i].open /\ st.sw[i].linked /\ st.sw[i].path[1] = dir}}
     ELSE {})

\* ---------------------------------------------------- direct storage clients
\* (storage/tests.rs: put, write, close on one path by several writers)
RawW(r) == <<"raw", r, 0>>

RawPut(r) ==
    /\ ~storage.sw[RawW(r)].open
    /\ ghost.rawClosed[r] = FALSE
    /\ storage' = StPut(storage, RawW(r), RawPath)
    /\ UNCHANGED <<app, sf, backend, now, cw, gp, cl, ghost>>

RawWrite(r) ==
    /\ storage.sw[RawW(r)].open
    /\ Len(storage.sw[RawW(r)].buf) < RawLen
    /\ \E u \in Bytes : storage' = StWrite(storage, RawW(r), u)
    /\ UNCHANGED <<app, sf, backend, now, cw, gp, cl, ghost>>

RawClose(r) ==
    /\ storage.sw[RawW(r)].open
    /\ storage' = StClose(storage, RawW(r))
    /\ ghost' = [ghost EXCEPT !.rawClosed[r] = TRUE,
                              !.rawStream[r] = storage.sw[RawW(r)].buf,
                              !.lastClosed = r]
    /\ UNCHANGED <<app, sf, backend, now, cw, gp, cl>>

RawDelete ==
    /\ StExistsFile(storage, RawPath)
    /\ \A r \in RawIds : ~storage.sw[RawW(r)].open
    /\ storage' = StDelete(storage, RawPath)
    /\ ghost' = [ghost EXCEPT !.lastClosed = 0,
                              !.rawClosed = [r \in RawIds |-> FALSE],
                              !.rawStream = [r \in RawIds |-> <<>>]]
    /\ UNCHANGED <<app, sf, backend, now, cw, gp, cl>>

\* ------------------------------------------------------------- local cache
\* Meta record: the blob id and the last access time (schema version 1)
NoMeta == [blob_id |-> 0, latest_access |-> 0]
\* Meta::new
MetaNew(blob_id, t) == [blob_id |-> blob_id, latest_access |-> t]
\* Meta::set_latest_access, mutated: the record keeps its time
keep_latest_access(meta, t) == meta
\* Meta::set_latest_access
set_latest_access(meta, t) == [meta EXCEPT !.latest_access = t]

MaxKeyList == 2
\* the key lists handed to get and set: distinct keys, in preference order
KeyLists ==
    {s \in UNION {[1..n -> Keys] : n \in 1..MaxKeyList} :
        \A i, j \in DOMAIN s : i # j => s[i] # s[j]}

Range(s) == {s[i] : i \in DOMAIN s}

\* rkyv::check_archived_root::<MetaV1> in Meta::from_bytes: the bytes are a record
check_archived_root(x) == x \in [blob_id : BlobIds, latest_access : Nat]

\* LocalCache::read_meta: "ok" with the record, "notfound", or "invalid" with
\* the kind of the io::Error: UnexpectedEof of read_exact when the file is
\* shorter than a record, InvalidData when from_bytes rejects the bytes
read_meta(st, p) ==
    LET f == StGet(st, p) IN
    IF ~f.exists THEN [kind |-> "notfound", meta |-> NoMeta, err |-> "NotFound"]
    ELSE IF Len(f.data) < META_MAX_SIZE
         THEN [kind |-> "invalid", meta |-> NoMeta, err |-> "UnexpectedEof"]
    ELSE IF ~check_archived_root(f.data[1])
         THEN [kind |-> "invalid", meta |-> NoMeta, err |-> "InvalidData"]
    ELSE [kind |-> "ok", meta |-> f.data[1], err |-> "None"]

\* ---- set and the cache writer
\* ghost.lastSet[k]: the latest set call that named key k.
\* ghost.published[k]: the writer (and its bytes) whose close returned Ok for
\* key k, until k is set again (a later set names k, or the writer of an
\* earlier set on k publishes its meta record) or clean deletes k's meta file.
NoPub == [w |-> 0, data |-> <<>>]
NoCW == [state |-> "unused", keys |-> <<>>, meta |-> NoMeta, next |-> 0, data |-> <<>>]
BW(w) == <<"cwb", w, 0>>
MW(w, i) == <<"cwm", w, i>>

RECURSIVE PutMetas(_, _, _, _)
PutMetas(st, w, keys, i) ==
    IF i > Len(keys) THEN st
    ELSE PutMetas(StPut(st, MW(w, i), meta_path(keys[i])), w, keys, i + 1)

\* BlobIdFactory::new_id: an id no earlier set has drawn
NewBlobId == CHOOSE w \in BlobIds : cw[w].state = "unused" /\ \A v \in BlobIds : v < w => cw[v].state # "unused"

\* LocalCache::set
Set(keys) ==
    /\ \E w \in BlobIds : cw[w].state = "unused"
    /\ Cardinality({w \in BlobIds : cw[w].state \in {"open", "closing"}}) < MaxOpen
    /\ LET w == NewBlobId IN
       /\ storage' = PutMetas(StPut(storage, BW(w), blob_path(w)), w, keys, 1)
       /\ cw' = [cw EXCEPT ![w] = [state |-> "open", keys |-> keys,
                                   meta |-> MetaNew(w, now), next |-> 1, data |-> <<>>]]
       /\ ghost' = [ghost EXCEPT
             !.lastSet = [k \in Keys |-> IF k \in Range(keys) THEN w ELSE @[k]],
             !.published = [k \in Keys |-> IF k \in Range(keys) THEN NoPub ELSE @[k]]]
    /\ UNCHANGED <<app, sf, backend, now, gp, cl>>

\* the bytes the caller of set hands to the writer: writer w's are all w
Payload(w) == w

\* CacheWriter::write
CWWrite(w) ==
    /\ cw[w].state = "open"
    /\ Len(storage.sw[BW(w)].buf) < MaxLen
    /\ storage' = StWrite(storage, BW(w), Payload(w))
    /\ UNCHANGED <<app, sf, backend, now, cw, gp, cl, ghost>>

\* CacheWriter::close, first statement: the blob writer is closed
CWCloseBlob(w) ==
    /\ cw[w].state = "open"
    /\ storage' = StClose(storage, BW(w))
    /\ cw' = [cw EXCEPT ![w].state = "closing", ![w].data = storage.sw[BW(w)].buf]
    /\ UNCHANGED <<app, sf, backend, now, gp, cl, ghost>>

\* the meta writer's write_all and close of one loop iteration
PublishMeta(st, id, meta) == StClose(StWrite(st, id, meta), id)

\* CacheWriter::close, one iteration of the loop over the meta writers; the
\* last one returns Ok
CWCloseMeta(w) ==
    /\ cw[w].state = "closing"
    /\ LET i == cw[w].next
           last == i = Len(cw[w].keys) IN
       /\ storage' = PublishMeta(storage, MW(w, i), cw[w].meta)
       /\ cw' = [cw EXCEPT ![w] = IF last THEN [NoCW EXCEPT !.state = "closed"]
                                              ELSE [@ EXCEPT !.next = i + 1]]
       /\ ghost' = [ghost EXCEPT !.published =
                      [k \in Keys |->
                         IF k = cw[w].keys[i] /\ ghost.lastSet[k] # w THEN NoPub
                         ELSE IF last /\ k \in Range(cw[w].keys) /\ ghost.lastSet[k] = w
                              THEN [w |-> w, data |-> cw[w].data]
                              ELSE @[k]]]
    /\ UNCHANGED <<app, sf, backend, now, gp, cl>>

\* the meta writers from index i on go out of scope unclosed
RECURSIVE DropMetas(_, _, _, _)
DropMetas(st, w, keys, i) ==
    IF i > Len(keys) THEN st
    ELSE DropMetas(StDrop(st, MW(w, i)), w, keys, i + 1)

\* n calls of CacheWriter::write
RECURSIVE WriteBytes(_, _, _)
WriteBytes(st, w, n) ==
    IF n = 0 THEN st ELSE WriteBytes(StWrite(st, BW(w), Payload(w)), w, n - 1)

\* a CacheWriter goes out of scope unclosed: its fields blob_writer and
\* meta_writers are dropped in the order of their declaration
CWDropped(st, w, keys) == DropMetas(StDrop(st, BW(w)), w, keys, 1)

\* put_into_cache whose std::io::copy returns an error after n bytes: the
\* closure returns at the `?` of line 146 and the writer it owns is dropped
PutAbandoned(keys, n) ==
    /\ \E w \in BlobIds : cw[w].state = "unused"
    /\ Cardinality({w \in BlobIds : cw[w].state \in {"open", "closing"}}) < MaxOpen
    /\ LET w == NewBlobId
           opened == PutMetas(StPut(storage, BW(w), blob_path(w)), w, keys, 1) IN
       /\ storage' = CWDropped(WriteBytes(opened, w, n), w, keys)
       /\ cw' = [cw EXCEPT ![w] = [NoCW EXCEPT !.state = "dropped", !.keys = keys]]
       /\ ghost' = [ghost EXCEPT
             !.lastSet = [k \in Keys |-> IF k \in Range(keys) THEN w ELSE @[k]],
             !.published = [k \in Keys |-> IF k \in Range(keys) THEN NoPub ELSE @[k]]]
    /\ UNCHANGED <<app, sf, backend, now, gp, cl>>

ClearPublished(g, ks) ==
    [g EXCEPT !.published = [k \in Keys |-> IF k \in ks THEN NoPub ELSE @[k]]]

\* CacheWriter::close, self.blob_writer.close()? returns the error of the
\* rename: close returns it, and the meta writers are dropped
CWCloseBlobFails(w) ==
    /\ backend = "fs"
    /\ cw[w].state = "open"
    /\ storage' = DropMetas(StCloseFails(storage, BW(w)), w, cw[w].keys, 1)
    /\ cw' = [cw EXCEPT ![w] = [NoCW EXCEPT !.state = "failed"]]
    /\ ghost' = ClearPublished(ghost, Range(cw[w].keys))
    /\ UNCHANGED <<app, sf, backend, now, gp, cl>>

FailurePoints == {"write_all", "close"}

\* CacheWriter::close, an iteration of the loop whose writer.write_all(..)? or
\* writer.close()? returns an error: close returns it; the writer whose
\* write_all failed and the writers after it are dropped
CWCloseMetaFails(w, at) ==
    /\ backend = "fs"
    /\ cw[w].state = "closing"
    /\ LET i == cw[w].next
           st == IF at = "write_all" THEN StDrop(storage, MW(w, i))
                                     ELSE StCloseFails(StWrite(storage, MW(w, i), cw[w].meta),
                                                       MW(w, i)) IN
       /\ storage' = DropMetas(st, w, cw[w].keys, i + 1)
       /\ ghost' = ClearPublished(ghost, {cw[w].keys[j] : j \in i..Len(cw[w].keys)})
    /\ cw' = [cw EXCEPT ![w] = [NoCW EXCEPT !.state = "failed"]]
    /\ UNCHANGED <<app, sf, backend, now, gp, cl>>

\* ---- get
GW == <<"get", 1, 0>>
Pending == [kind |-> "pending", key |-> 0, data |-> <<>>]
Hit(key, data) == [kind |-> "hit", key |-> key, data |-> data]
Miss == [kind |-> "none", key |-> 0, data |-> <<>>]
Failed == [kind |-> "err", key |-> 0, data |-> <<>>]
IdleGet == [pc |-> "idle", keys |-> <<>>, i |-> 0, meta |-> NoMeta, result |-> Pending,
            err |-> "None"]

\* a key resolves: its meta file holds a record whose blob exists
Resolves(st, k) ==
    /\ read_meta(st, meta_path(k)).kind = "ok"
    /\ StExistsFile(st, blob_path(read_meta(st, meta_path(k)).meta.blob_id))

Undecodable(st, k) == read_meta(st, meta_path(k)).kind = "invalid"

\* what the preference order asks of get(keys) in storage state st: the hit of
\* the first key that resolves, none if no key does, an error if a key before
\* that has a meta file that is no record
Expected(st, keys) ==
    LET stop == {i \in DOMAIN keys : Resolves(st, keys[i]) \/ Undecodable(st, keys[i])} IN
    IF stop = {} THEN Miss
    ELSE LET i == CHOOSE j \in stop : \A l \in stop : j <= l IN
         IF Undecodable(st, keys[i]) THEN Failed
         ELSE Hit(keys[i], StGet(st, blob_path(read_meta(st, meta_path(keys[i])).meta.blob_id)).data)

\* LocalCache::get is entered
GetStart(keys) ==
    /\ gp.pc = "idle"
    /\ ghost.calls < MaxCalls
    /\ gp' = [IdleGet EXCEPT !.pc = "read", !.keys = keys, !.i = 1]
    /\ ghost' = [ghost EXCEPT !.calls = @ + 1]
    /\ UNCHANGED <<app, sf, backend, now, storage, cw, cl>>

\* `continue` in the loop over the keys; Ok(None) after the last key
GetContinue(g) ==
    IF g.i >= Len(g.keys)
    THEN [g EXCEPT !.pc = "done", !.result = Miss, !.meta = NoMeta]
    ELSE [g EXCEPT !.pc = "read", !.i = g.i + 1]

\* the arm of get for a missing blob, as the earlier LocalCache::get had it
\* (`?` on the blob's storage.get)
GetBlobMissingFails(g) ==
    [g EXCEPT !.pc = "done", !.result = Failed, !.meta = NoMeta, !.err = "NotFound"]

\* the arm of get for ErrorKind::NotFound of the blob
GetBlobMissing(g) == GetContinue(g)

\* read_meta of the current key and set_latest_access(clock.now())
GetReadMeta ==
    /\ gp.pc = "read"
    /\ LET r == read_meta(storage, meta_path(gp.keys[gp.i])) IN
       gp' = IF r.kind = "notfound" THEN GetContinue(gp)
             ELSE IF r.kind = "invalid"
             THEN [gp EXCEPT !.pc = "done", !.result = Failed, !.err = r.err]
             ELSE [gp EXCEPT !.pc = "put", !.meta = set_latest_access(r.meta, now)]
    /\ UNCHANGED <<app, sf, backend, now, storage, cw, cl, ghost>>

\* storage.put(&meta_path)
GetPut ==
    /\ gp.pc = "put"
    /\ storage' = StPut(storage, GW, meta_path(gp.keys[gp.i]))
    /\ gp' = [gp EXCEPT !.pc = "publish"]
    /\ UNCHANGED <<app, sf, backend, now, cw, cl, ghost>>

\* writer.write_all(meta); writer.close()
GetPublish ==
    /\ gp.pc = "publish"
    /\ storage' = PublishMeta(storage, GW, gp.meta)
    /\ gp' = [gp EXCEPT !.pc = "blob"]
    /\ UNCHANGED <<app, sf, backend, now, cw, cl, ghost>>

\* storage.get(&blob_path): the hit, or the next key
GetBlob ==
    /\ gp.pc = "blob"
    /\ LET f == StGet(storage, blob_path(gp.meta.blob_id)) IN
       gp' = IF f.exists
             THEN [gp EXCEPT !.pc = "done", !.result = Hit(gp.keys[gp.i], f.data),
                             !.meta = NoMeta]
             ELSE GetBlobMissing(gp)
    /\ UNCHANGED <<app, sf, backend, now, storage, cw, cl, ghost>>

\* the caller has the result
GetReturn ==
    /\ gp.pc = "done"
    /\ gp' = IdleGet
    /\ UNCHANGED <<app, sf, backend, now, storage, cw, cl, ghost>>

\* ---- clean
NoBlob == [latest_access |-> 0, size |-> 0, blob_id |-> 0, keys |-> <<>>]
IdleClean == [pc |-> "idle", age |-> NoLimit, size |-> NoLimit, blob_sizes |-> <<>>,
              todo |-> {}, blobs |-> {}, sum |-> 0, cutoff |-> 0, cur |-> NoBlob,
              ok |-> TRUE]
AgeOpts == {NoLimit} \cup (0..MaxAge)
SizeOpts == {NoLimit} \cup (0..MaxSize)

CleanFail(c) == [c EXCEPT !.pc = "done", !.ok = FALSE, !.blob_sizes = <<>>, !.todo = {},
                          !.blobs = {}, !.cur = NoBlob, !.sum = 0, !.cutoff = 0]
CleanOk(c) == [c EXCEPT !.pc = "done", !.blob_sizes = <<>>, !.todo = {},
                        !.blobs = {}, !.cur = NoBlob, !.sum = 0, !.cutoff = 0]

\* LocalCache::clean is entered, mutated: without the early return
CleanStartScans(age, size) ==
    /\ cl.pc = "idle"
    /\ ghost.calls < MaxCalls
    /\ cl' = [IdleClean EXCEPT !.pc = "listblob", !.age = age, !.size = size]
    /\ ghost' = [ghost EXCEPT !.calls = @ + 1]
    /\ UNCHANGED <<app, sf, backend, now, storage, cw, gp>>

\* LocalCache::clean is entered; with both limits unset it returns Ok at once
CleanStart(age, size) ==
    /\ cl.pc = "idle"
    /\ ghost.calls < MaxCalls
    /\ cl' = [IdleClean EXCEPT !.pc = IF age = NoLimit /\ size = NoLimit THEN "done" ELSE "listblob",
                               !.age = age, !.size = size]
    /\ ghost' = [ghost EXCEPT !.calls = @ + 1]
    /\ UNCHANGED <<app, sf, backend, now, storage, cw, gp>>

\* the loop over iter_subdir_files("/blob"): blob_sizes of the entries whose
\* name decodes to a blob id (a temp file's name does not).  Listing a
\* directory that does not exist fails with NotFound.
CleanListBlobs ==
    /\ cl.pc = "listblob"
    /\ cl' = IF BlobDir \notin storage.dirs THEN CleanFail(cl)
             ELSE LET es == {e \in StList(storage, BlobDir) : ~e.tmp} IN
                  [cl EXCEPT !.pc = "listmeta",
                             !.blob_sizes = [b \in {e.path[2] : e \in es} |->
                                               Len(StGet(storage, blob_path(b)).data)]]
    /\ UNCHANGED <<app, sf, backend, now, storage, cw, gp, ghost>>

\* the upsert, mutated: the aggregate keeps the latest_access of the first
\* key file found for the blob (no max over the keys)
UpsertFirstAccess(blobs, blob_sizes, key, meta) ==
    IF meta.blob_id \notin DOMAIN blob_sizes THEN blobs
    ELSE LET old == {b \in blobs : b.blob_id = meta.blob_id}
             entry == IF old = {}
                      THEN [latest_access |-> meta.latest_access,
                            size |-> blob_sizes[meta.blob_id],
                            blob_id |-> meta.blob_id, keys |-> <<>>]
                      ELSE CHOOSE b \in old : TRUE
         IN (blobs \ old) \cup {[entry EXCEPT !.keys = Append(entry.keys, key)]}

\* the upsert of a key file's record into the aggregate of its blob; records
\* whose blob is not in blob_sizes are skipped
Upsert(blobs, blob_sizes, key, meta) ==
    IF meta.blob_id \notin DOMAIN blob_sizes THEN blobs
    ELSE LET old == {b \in blobs : b.blob_id = meta.blob_id}
             entry == IF old = {}
                      THEN [latest_access |-> meta.latest_access,
                            size |-> blob_sizes[meta.blob_id],
                            blob_id |-> meta.blob_id, keys |-> <<>>]
                      ELSE CHOOSE b \in old : TRUE
             max == IF entry.latest_access >= meta.latest_access
                    THEN entry.latest_access ELSE meta.latest_access
         IN (blobs \ old) \cup {[entry EXCEPT !.keys = Append(entry.keys, key),
                                              !.latest_access = max]}

RECURSIVE SumSizes(_)
SumSizes(blobs) ==
    IF blobs = {} THEN 0
    ELSE LET b == CHOOSE x \in blobs : TRUE IN b.size + SumSizes(blobs \ {b})

\* the derived Ord of Blob: Reverse(latest_access), then size, blob_id
BlobLess(a, b) ==
    \/ a.latest_access > b.latest_access
    \/ /\ a.latest_access = b.latest_access
       /\ \/ a.size < b.size
          \/ a.size = b.size /\ a.blob_id < b.blob_id

\* BinaryHeap::peek, mutated: the least Blob, which is the most recently used
HeapPeekLeast(blobs) == CHOOSE a \in blobs : \A b \in blobs \ {a} : BlobLess(a, b)

\* BinaryHeap::peek: the greatest Blob
HeapPeek(blobs) == CHOOSE a \in blobs : \A b \in blobs \ {a} : BlobLess(b, a)

\* the loop condition of the eviction loop, negated: the oldest blob is recent
\* enough and the size sum is within the limit
WithinLimits(top, cutoff, sum, size) ==
    /\ (cutoff = NoLimit \/ top.latest_access >= cutoff)
    /\ (size = NoLimit \/ sum <= size)

\* the head of the eviction loop: stop, or pop the oldest blob.  It touches
\* only the locals of clean, so it is part of the step that reaches it.
CleanLoop(c) ==
    IF c.blobs = {} THEN CleanOk(c)
    ELSE LET top == HeapPeek(c.blobs) IN
         IF WithinLimits(top, c.cutoff, c.sum, c.size)
         THEN CleanOk(c)
         ELSE [c EXCEPT !.pc = "delmeta", !.cur = top, !.blobs = c.blobs \ {top}]

\* after the last key file: blob_size_sum, the heap, cutoff = now - age
CleanScanned(c, t) ==
    CleanLoop([c EXCEPT !.sum = SumSizes(c.blobs), !.blob_sizes = <<>>,
                        !.cutoff = IF c.age = NoLimit THEN NoLimit ELSE t - c.age])

\* iter_subdir_files("/meta"): the key files found
CleanListMeta ==
    /\ cl.pc = "listmeta"
    /\ cl' = IF MetaDir \notin storage.dirs THEN CleanFail(cl)
             ELSE LET es == StList(storage, MetaDir) IN
                  IF es = {} THEN CleanScanned(cl, now)
                  ELSE [cl EXCEPT !.pc = "scan", !.todo = es]
    /\ UNCHANGED <<app, sf, backend, now, storage, cw, gp, ghost>>

\* one iteration of the loop over the key files: read_meta and the upsert.  A
\* temp file of an open meta writer is still empty, or gone when it is read:
\* read_meta fails on it.
CleanScan ==
    /\ cl.pc = "scan"
    /\ \E e \in cl.todo :
         LET r == read_meta(storage, e.path)
             c == [cl EXCEPT !.todo = cl.todo \ {e},
                             !.blobs = Upsert(cl.blobs, cl.blob_sizes, e.path[2], r.meta)]
         IN cl' = IF e.tmp \/ r.kind # "ok" THEN CleanFail(cl)
                  ELSE IF c.todo = {} THEN CleanScanned(c, now)
                  ELSE c
    /\ UNCHANGED <<app, sf, backend, now, storage, cw, gp, ghost>>

\* the keys of a popped blob whose meta files the loop deletes, mutated: the
\* first key only
KeysToDeleteFirstOnly(blob) == IF blob.keys = <<>> THEN <<>> ELSE <<Head(blob.keys)>>

\* the keys of a popped blob whose meta files the loop deletes
KeysToDelete(blob) == blob.keys

\* storage.delete(meta_path(key)) for the next key of the popped blob
CleanDelMeta ==
    /\ cl.pc = "delmeta"
    /\ LET ks == KeysToDelete(cl.cur) IN
       IF ks = <<>>
       THEN /\ cl' = [cl EXCEPT !.pc = "delblob"]
            /\ UNCHANGED <<storage, ghost>>
       ELSE LET k == Head(ks) IN
            IF ~StExistsFile(storage, meta_path(k))
            THEN /\ cl' = CleanFail(cl)
                 /\ UNCHANGED <<storage, ghost>>
            ELSE /\ storage' = StDelete(storage, meta_path(k))
                 /\ cl' = [cl EXCEPT !.cur.keys = Tail(ks)]
                 /\ ghost' = [ghost EXCEPT !.published[k] = NoPub]
    /\ UNCHANGED <<app, sf, backend, now, cw, gp>>

\* storage.delete(blob_path(blob_id)); blob_size_sum -= size
CleanDelBlob ==
    /\ cl.pc = "delblob"
    /\ IF ~StExistsFile(storage, blob_path(cl.cur.blob_id))
       THEN /\ cl' = CleanFail(cl)
            /\ UNCHANGED storage
       ELSE /\ storage' = StDelete(storage, blob_path(cl.cur.blob_id))
            /\ cl' = CleanLoop([cl EXCEPT !.sum = cl.sum - cl.cur.size, !.cur = NoBlob])
    /\ UNCHANGED <<app, sf, backend, now, cw, gp, ghost>>

\* the caller has the result
CleanReturn ==
    /\ cl.pc = "done"
    /\ cl' = IdleClean
    /\ UNCHANGED <<app, sf, backend, now, storage, cw, gp, ghost>>

\* Clock::now advances
Tick ==
    /\ now < MaxTime
    /\ now' = now + 1
    /\ UNCHANGED <<app, sf, backend, storage, cw, gp, cl, ghost>>

\* -------------------------------------------------------------------- init
\* ---- StagedFile and clean_leftover_tmp_files (filesystem back-end), at the
\* grain of the system calls. sf.files: the files of the directory tree that
\* exist; sf.content: the bytes at the target path; sf.wr: the processes
\* creating a StagedFile for the target; sf.sweep: the sweeper.
NumWriters == 2
MaxSweeps == 2
\* for _ in 0..5
Attempts == 5
SFWriters == 1..NumWriters
\* the suffix of a temp file left behind by a process that was killed
Leftover == 0
TargetPath == <<"test.txt", 0>>
\* target_path.with_file_name(format!("{}.tmp.{}", filename, suffix)); every
\* writer draws its own suffix
tmp_path(suffix) == <<"test.txt.tmp", suffix>>
SFPaths == {TargetPath} \cup {tmp_path(x) : x \in SFWriters \cup {Leftover}}
\* the file name test of the sweeper: <name>.tmp.<7 characters>
is_tmp_name(p) == p[1] = "test.txt.tmp"

IdleWriter == [pc |-> "idle", attempts |-> 0, data |-> <<>>, result |-> "none",
               how |-> "none"]
IdleSweep == [pc |-> "idle", visited |-> {}, must |-> {}, pending |-> TargetPath,
              ok |-> TRUE, free |-> {}, held |-> {}, runs |-> 0]
InitStaged ==
    [files   |-> [p \in SFPaths |-> p = tmp_path(Leftover)],
     content |-> <<>>,
     wr      |-> [w \in SFWriters |-> IdleWriter],
     sweep   |-> IdleSweep]

\* a process holds the exclusive lock of the file at p: the writer that
\* created it, from its lock_exclusive until its file handle is dropped
lock_held(s, p) ==
    \E w \in SFWriters : p = tmp_path(w) /\ s.wr[w].pc \in {"locked", "returned"}

\* OpenOptions::new().create_new(true).write(true).open(&tmp_path)?
NewCreate(w) ==
    /\ sf.wr[w].pc = "idle"
    /\ sf' = IF sf.files[tmp_path(w)]
             THEN [sf EXCEPT !.wr[w].pc = "done", !.wr[w].result = "AlreadyExists"]
             ELSE [sf EXCEPT !.wr[w].pc = "created", !.files[tmp_path(w)] = TRUE]
    /\ UNCHANGED <<app, backend, now, storage, cw, gp, cl, ghost>>

\* file.lock_exclusive()?: the lock of the file the handle refers to, whether
\* or not it is still linked at tmp_path
NewLock(w) ==
    /\ sf.wr[w].pc = "created"
    /\ sf' = [sf EXCEPT !.wr[w].pc = "locked",
                        !.sweep.free = @ \ {tmp_path(w)}]
    /\ UNCHANGED <<app, backend, now, storage, cw, gp, cl, ghost>>

\* if !tmp_path.exists() { continue; } return Ok(Self {..}); after the fifth
\* attempt Err(ErrorKind::Other)
NewCheck(w) ==
    /\ sf.wr[w].pc = "locked"
    /\ sf' = IF sf.files[tmp_path(w)]
             THEN [sf EXCEPT !.wr[w].pc = "returned"]
             ELSE IF sf.wr[w].attempts + 1 = Attempts
             THEN [sf EXCEPT !.wr[w].pc = "done", !.wr[w].result = "Other",
                             !.wr[w].attempts = @ + 1]
             ELSE [sf EXCEPT !.wr[w].pc = "idle", !.wr[w].attempts = @ + 1]
    /\ UNCHANGED <<app, backend, now, storage, cw, gp, cl, ghost>>

\* Write for StagedFile: the bytes go to the file of the handle
StagedWrite(w) ==
    /\ sf.wr[w].pc = "returned"
    /\ Len(sf.wr[w].data) < MaxLen
    /\ sf' = [sf EXCEPT !.wr[w].data = Append(@, w)]
    /\ UNCHANGED <<app, backend, now, storage, cw, gp, cl, ghost>>

\* finalize: fs::rename(&self.tmp_path, self.target_path); how is the caller
\* (close or drop) and err what the caller makes of a failed rename
finalize(s, w, how, err) ==
    IF s.files[tmp_path(w)]
    THEN [s EXCEPT !.wr[w].pc = "done", !.wr[w].result = "ok", !.wr[w].how = how,
                   !.files[tmp_path(w)] = FALSE, !.files[TargetPath] = TRUE,
                   !.content = s.wr[w].data,
                   !.sweep.held = @ \ {tmp_path(w)}]
    ELSE [s EXCEPT !.wr[w].pc = "done", !.wr[w].result = err, !.wr[w].how = how,
                   !.sweep.held = @ \ {tmp_path(w)}]

\* Close::close: self.finalize(), the error of the rename is returned
StagedClose(w) ==
    /\ sf.wr[w].pc = "returned"
    /\ sf' = finalize(sf, w, "close", "NotFound")
    /\ UNCHANGED <<app, backend, now, storage, cw, gp, cl, ghost>>

\* Drop for StagedFile that was not closed: self.finalize().expect(..), a
\* failed rename panics
StagedDrop(w) ==
    /\ sf.wr[w].pc = "returned"
    /\ sf' = finalize(sf, w, "drop", "panic")
    /\ UNCHANGED <<app, backend, now, storage, cw, gp, cl, ghost>>

\* clean_leftover_tmp_files is called: read_dir of the tree. must: the entries
\* read_dir is sure to return (the files that exist at the call); files
\* created later may be returned or not. free and held: the temp files that
\* exist, and are unlocked resp. locked, from the call on.
SweepStart ==
    /\ sf.sweep.pc \in {"idle", "done"}
    /\ sf.sweep.runs < MaxSweeps
    /\ LET ex == {p \in SFPaths : sf.files[p]} IN
       sf' = [sf EXCEPT !.sweep =
                [IdleSweep EXCEPT !.pc = "scan", !.must = ex,
                                  !.free = {p \in ex : is_tmp_name(p) /\ ~lock_held(sf, p)},
                                  !.held = {p \in ex : is_tmp_name(p) /\ lock_held(sf, p)},
                                  !.runs = sf.sweep.runs + 1]]
    /\ UNCHANGED <<app, backend, now, storage, cw, gp, cl, ghost>>

\* open(entry.path()).and_then(|file_handle| file_handle.try_lock_exclusive())
\* .is_ok(): the file handle, and the lock with it, is gone when this returns
try_lock_ignoring_writers(s, p) == s.files[p]

try_lock_exclusive(s, p) == s.files[p] /\ ~lock_held(s, p)

\* one entry of read_dir: a file whose name is that of a temp file and whose
\* lock the sweeper could take is to be removed
SweepEntry(p) ==
    /\ sf.sweep.pc = "scan"
    /\ p \notin sf.sweep.visited
    /\ sf.files[p]
    /\ sf' = IF is_tmp_name(p) /\ try_lock_exclusive(sf, p)
             THEN [sf EXCEPT !.sweep.visited = @ \cup {p}, !.sweep.pc = "remove",
                             !.sweep.pending = p]
             ELSE [sf EXCEPT !.sweep.visited = @ \cup {p}]
    /\ UNCHANGED <<app, backend, now, storage, cw, gp, cl, ghost>>

\* fs::remove_file(entry.path())?
SweepRemove ==
    /\ sf.sweep.pc = "remove"
    /\ sf' = IF sf.files[sf.sweep.pending]
             THEN [sf EXCEPT !.files[sf.sweep.pending] = FALSE, !.sweep.pc = "scan",
                             !.sweep.pending = TargetPath]
             ELSE [sf EXCEPT !.sweep.pc = "done", !.sweep.ok = FALSE,
                             !.sweep.pending = TargetPath]
    /\ UNCHANGED <<app, backend, now, storage, cw, gp, cl, ghost>>

\* read_dir is exhausted: Ok(())
SweepReturn ==
    /\ sf.sweep.pc = "scan"
    /\ \A p \in sf.sweep.must : p \in sf.sweep.visited \/ ~sf.files[p]
    /\ sf' = [sf EXCEPT !.sweep.pc = "done"]
    /\ UNCHANGED <<app, backend, now, storage, cw, gp, cl, ghost>>

\* ---- the paths FilesystemStorage hands to the operating system.  A path
\* given to the storage is a string of the pieces "/", ".." and "a"; a PathBuf
\* is [absolute, comps], comps being its components, each a string of pieces.
MaxPathLen == 4
PathStrings == UNION {[1..n -> {"/", "..", "a"}] : n \in 0..MaxPathLen}
\* Component::ParentDir
ParentDir == <<"..">>
\* FilesystemStorage::new(root): the storage root is the directory /r
Root == [absolute |-> TRUE, comps |-> <<<<"r">>>>]

\* Path::components: the pieces between the slashes, empty ones left out
RECURSIVE Components(_, _, _)
Components(str, cur, acc) ==
    IF str = <<>> THEN (IF cur = <<>> THEN acc ELSE Append(acc, cur))
    ELSE IF Head(str) = "/"
         THEN Components(Tail(str), <<>>, IF cur = <<>> THEN acc ELSE Append(acc, cur))
         ELSE Components(Tail(str), Append(cur, Head(str)), acc)

\* Path::join: an absolute argument replaces the base
join(base, str) ==
    IF str # <<>> /\ Head(str) = "/"
    THEN [absolute |-> TRUE, comps |-> Components(str, <<>>, <<>>)]
    ELSE [base EXCEPT !.comps = base.comps \o Components(str, <<>>, <<>>)]

\* FilesystemStorage::canonical_path
canonical_path(path) ==
    IF path = <<>> \/ Head(path) # "/"
    THEN [ok |-> FALSE, path |-> Root]
    ELSE [ok |-> TRUE, path |-> join(Root, Tail(path))]

\* the directory entry the operating system reaches for a PathBuf: a parent
\* directory component leads one level up
RECURSIVE Resolve(_, _)
Resolve(comps, at) ==
    IF comps = <<>> THEN at
    ELSE IF Head(comps) = ParentDir
         THEN Resolve(Tail(comps), IF at = <<>> THEN at ELSE SubSeq(at, 1, Len(at) - 1))
         ELSE Resolve(Tail(comps), Append(at, Head(comps)))

\* FilesystemStorage::put after canonical_path: the parent directories are
\* walked (a parent directory component is refused) and StagedFile::new needs
\* a file name
put_accepts(pb) ==
    /\ pb.comps # <<>>
    /\ \A i \in 1..(Len(pb.comps) - 1) : pb.comps[i] # ParentDir
    /\ pb.comps[Len(pb.comps)] # ParentDir

\* one operation of FilesystemStorage on a path: its result, and the
\* directory entry on which the operating system call was issued
FsOp(op, path) ==
    /\ LET c == canonical_path(path) IN
       app' = [app EXCEPT !.fsop =
                 IF ~c.ok \/ (op = "put" /\ ~put_accepts(c.path))
                 THEN [op |-> op, path |-> path, result |-> "InvalidInput",
                       touched |-> <<>>, issued |-> FALSE]
                 ELSE [op |-> op, path |-> path, result |-> "ok",
                       touched |-> Resolve(c.path.comps, <<>>), issued |-> TRUE]]
    /\ UNCHANGED <<backend, now, storage, cw, gp, cl, ghost, sf>>

\* ---- BiscuitBearerAuth of the server.  A token is missing, undecodable
\* (not a Biscuit signed by the server's key pair), or a Biscuit, given by the
\* checks of its blocks: check if operation(v), check if cache(v), and
\* check if time($time), $time <= bound.
CacheIds == {"test-cache", "other-cache"}
Checks == [fact : {"operation"}, v : {"get", "put"}, bound : {0}]
          \cup [fact : {"cache"}, v : CacheIds, bound : {0}]
          \cup [fact : {"time"}, v : {"$time"}, bound : 0..MaxTime]
Tokens == [kind : {"missing", "undecodable"}, checks : {{}}]
          \cup [kind : {"biscuit"}, checks : SUBSET Checks]

\* a check, mutated: a time check always passes
check_ignoring_time(c, operation, cache_id, t) ==
    CASE c.fact = "operation" -> c.v = operation
      [] c.fact = "cache" -> c.v = cache_id
      [] c.fact = "time" -> TRUE

\* a check of the token against the authorizer's facts operation({operation}),
\* cache({cache_id}) and, by .time(), time(now)
check_holds(c, operation, cache_id, t) ==
    CASE c.fact = "operation" -> c.v = operation
      [] c.fact = "cache" -> c.v = cache_id
      [] c.fact = "time" -> t <= c.bound

\* the security scheme and BiscuitBearerAuth::authorize: 401, 403, or 0 for Ok(())
authorize(token, operation, cache_id, t) ==
    IF token.kind # "biscuit" THEN 401
    ELSE IF \E c \in token.checks : ~check_holds(c, operation, cache_id, t) THEN 403
    ELSE 0

\* an authorize call on its own, as in the test_bearer_auth_* tests
AuthorizeCall(token, operation, cache_id) ==
    /\ app' = [app EXCEPT !.auth = [token |-> token, operation |-> operation,
                                    cache_id |-> cache_id, at |-> now,
                                    status |-> authorize(token, operation, cache_id, now)]]
    /\ UNCHANGED <<backend, now, storage, cw, gp, cl, ghost, sf>>

\* ---- the server's handlers of GET and PUT /caches/{id}, one request at a
\* time.  app.srv: the request being handled and its response.
\* Api.caches: the cache ids that are configured
Configured == {"test-cache"}
\* the tokens sent to the handlers: none, garbage, the unattenuated token, and
\* tokens attenuated to get resp. to the other cache
SrvTokens ==
    {t \in Tokens : t.checks \in {{}, {[fact |-> "operation", v |-> "get", bound |-> 0]},
                                  {[fact |-> "cache", v |-> "other-cache", bound |-> 0]}}}
IdleSrv == [pc |-> "idle", method |-> "none", cache_id |-> "none",
            token |-> [kind |-> "missing", checks |-> {}], keys |-> <<>>, base |-> 0,
            status |-> 0, body |-> <<>>, cache_key |-> 0]
\* the writers that sets have drawn so far
Used == Cardinality({w \in BlobIds : cw[w].state # "unused"})

\* the handler's entry, mutated: the result of authorize is not looked at
SrvDispatchUnchecked(a, cache_id, method) ==
    IF cache_id \notin Configured THEN "done" ELSE method

\* where a handler goes after `auth.authorize(..)?` and self.caches.get(..):
\* to its response, or on to the cache
SrvDispatch(a, cache_id, method) ==
    IF a # 0 THEN "done"
    ELSE IF cache_id \notin Configured THEN "done"
    ELSE method

\* a request arrives at get_from_cache or put_into_cache: the security scheme
\* and authorize (401, 403), then the lookup of the cache (404)
SrvRequest(method, cache_id, token, keys) ==
    /\ app.srv.pc \in {"idle", "done"}
    /\ LET a == authorize(token, method, cache_id, now)
           pc == SrvDispatch(a, cache_id, method) IN
       /\ pc = "get" => ghost.calls < MaxCalls
       /\ pc = "put" => \E w \in BlobIds : cw[w].state = "unused"
       /\ app' = [app EXCEPT !.srv =
                    [IdleSrv EXCEPT !.pc = pc, !.method = method, !.cache_id = cache_id,
                                    !.token = token, !.keys = keys, !.base = Used,
                                    !.status = IF a # 0 THEN a
                                               ELSE IF cache_id \notin Configured THEN 404
                                               ELSE 0]]
    /\ UNCHANGED <<backend, now, storage, cw, gp, cl, ghost, sf>>

\* get_from_cache: the result of cache.get becomes the response:
\* CacheMiss 204, CacheHit 200 with the reader as body, an error 500
SrvRespondGet ==
    /\ app.srv.pc = "get"
    /\ gp.pc = "done"
    /\ app' = [app EXCEPT !.srv.pc = "done",
                          !.srv.status = CASE gp.result.kind = "none" -> 204
                                           [] gp.result.kind = "hit" -> 200
                                           [] OTHER -> 500,
                          !.srv.body = gp.result.data]
    /\ gp' = IdleGet
    /\ UNCHANGED <<backend, now, storage, cw, cl, ghost, sf>>

\* put_into_cache: the body was copied into the writer and the writer closed
SrvRespondPut ==
    /\ app.srv.pc = "put"
    /\ Used = app.srv.base + 1
    /\ \A w \in BlobIds : cw[w].state \notin {"open", "closing"}
    /\ app' = [app EXCEPT !.srv.pc = "done", !.srv.status = 204]
    /\ UNCHANGED <<backend, now, storage, cw, gp, cl, ghost, sf>>

\* ---- RemoteCache::get: the request for a list of keys and the response of
\* the server, given by its status code and its header lines
MaxHeaders == 2
ReqKeys == {"k1", "k2"}
ReqKeyLists == UNION {[1..n -> ReqKeys] : n \in 0..MaxKeyList}
StatusCodes == {200, 201, 204, 304, 404, 500}
HeaderLines ==
    [name : {"Btdt-Cache-Key", "btdt-cache-key"}, value : ReqKeys \cup {"zz"}]
    \cup [name : {"Content-Length"}, value : {"1", "x"}]
    \cup [name : {"Transfer-Encoding"}, value : {"chunked", "gzip"}]
    \cup [name : {"no colon"}, value : {""}]
Responses ==
    [status : StatusCodes, headers : UNION {[1..n -> HeaderLines] : n \in 0..MaxHeaders}]

\* str::eq_ignore_ascii_case on the header names that occur
eq_ignore_ascii_case(name, lower) ==
    \/ name = lower
    \/ name = "Btdt-Cache-Key" /\ lower = "btdt-cache-key"
    \/ name = "Content-Length" /\ lower = "content-length"
    \/ name = "Transfer-Encoding" /\ lower = "transfer-encoding"

\* HttpStatus::is_success: the first digit of the code is 2
is_success(status) == status \div 100 = 2

\* Header::new and read_next_header on one line: the error it returns, or "None"
header_error(h) ==
    IF h.name = "no colon" THEN "InvalidData"
    ELSE IF eq_ignore_ascii_case(h.name, "transfer-encoding") /\ h.value # "chunked"
    THEN "UnsupportedFeature"
    ELSE IF eq_ignore_ascii_case(h.name, "content-length") /\ h.value # "1"
    THEN "InvalidData"
    ELSE "None"

\* keys.iter().find(|&&key| key == header.value()), mutated: the header's
\* value is taken as the key
find_unchecked(keys, value) == value

\* keys.iter().find(|&&key| key == header.value()): "" stands for None
find(keys, value) ==
    IF \E i \in 1..Len(keys) : keys[i] = value THEN value ELSE ""

\* the header loop of get followed by read_body: the headers are read in
\* order; st is [hit_key, size_hint, err]
RECURSIVE read_headers(_, _, _)
read_headers(keys, headers, st) ==
    IF headers = <<>> THEN st
    ELSE LET h == Head(headers) IN
         IF header_error(h) # "None" THEN [st EXCEPT !.err = header_error(h)]
         ELSE read_headers(keys, Tail(headers),
                [hit_key |-> IF st.hit_key = "" /\ eq_ignore_ascii_case(h.name, "btdt-cache-key")
                             THEN find(keys, h.value) ELSE st.hit_key,
                 size_hint |-> IF st.size_hint = 0 /\ eq_ignore_ascii_case(h.name, "content-length")
                               THEN 1 ELSE st.size_hint,
                 err |-> "None"])

\* RemoteCache::get for a request that got its status line
remote_get(keys, resp) ==
    IF keys = <<>> THEN [kind |-> "none", key |-> "", err |-> "None", status |-> 0]
    ELSE IF ~is_success(resp.status)
    THEN [kind |-> "err", key |-> "", err |-> "HttpError", status |-> resp.status]
    ELSE IF resp.status = 204
    THEN [kind |-> "none", key |-> "", err |-> "None", status |-> 0]
    ELSE LET st == read_headers(keys, resp.headers,
                                [hit_key |-> "", size_hint |-> 0, err |-> "None"]) IN
         IF st.err # "None"
         THEN [kind |-> "err", key |-> "", err |-> st.err, status |-> 0]
         ELSE IF st.hit_key = ""
         THEN [kind |-> "err", key |-> "", err |-> "InvalidData", status |-> 0]
         ELSE [kind |-> "hit", key |-> st.hit_key, err |-> "None", status |-> 0]

\* RemoteCache::get is called: without keys it returns at once, otherwise the
\* request is sent
IdleRemote == [pc |-> "idle", keys |-> <<>>, resp |-> [status |-> 204, headers |-> <<>>],
               result |-> [kind |-> "none", key |-> "", err |-> "None", status |-> 0]]
RemoteRequest(keys) ==
    /\ app.remote.pc \in {"idle", "done"}
    /\ app' = [app EXCEPT !.remote =
                 [IdleRemote EXCEPT !.keys = keys,
                                    !.pc = IF keys = <<>> THEN "done" ELSE "sent"]]
    /\ UNCHANGED <<backend, now, storage, cw, gp, cl, ghost, sf>>

\* the response arrives and get returns
RemoteResponse(resp) ==
    /\ app.remote.pc = "sent"
    /\ app' = [app EXCEPT !.remote.pc = "done",
                          !.remote.resp = resp,
                          !.remote.result = remote_get(app.remote.keys, resp)]
    /\ UNCHANGED <<backend, now, storage, cw, gp, cl, ghost, sf>>

\* ---- the chunked request body of the HTTP client.  Bytes are one-character
\* strings, "CR" and "LF" stand for the bytes 13 and 10.
MaxWrites == 3
CRLF == <<"CR", "LF">>
HexDigits == <<"0", "1", "2", "3", "4", "5", "6", "7", "8", "9",
               "A", "B", "C", "D", "E", "F">>

\* format!("{chunk_size:X}")
RECURSIVE UpperHex(_)
UpperHex(n) ==
    IF n < 16 THEN <<HexDigits[n + 1]>>
    ELSE UpperHex(n \div 16) \o <<HexDigits[(n % 16) + 1]>>

\* the buffers passed to write: every buffer of up to 2 bytes, and buffers of
\* 10, 16 and 17 bytes
Buffers ==
    UNION {[1..n -> {"A", "0", "CR"}] : n \in 0..2}
    \cup {[i \in 1..n |-> "A"] : n \in {10, 16, 17}}

\* write of the chunked body, mutated: an empty buffer is emitted as a chunk too
chunk_of_any(buf) == UpperHex(Len(buf)) \o CRLF \o buf \o CRLF

\* what write of the chunked body puts on the stream for buf
chunk_of(buf) ==
    IF Len(buf) > 0 THEN UpperHex(Len(buf)) \o CRLF \o buf \o CRLF ELSE <<>>

IdleChunked == [stream |-> <<>>, written |-> <<>>, writes |-> 0, closed |-> FALSE]

\* Write::write for HttpRequest<AwaitingRequestBody<ChunkedTransferEncoding>>
ChunkedWrite(buf) ==
    /\ ~app.chunked.closed
    /\ app.chunked.writes < MaxWrites
    /\ app' = [app EXCEPT !.chunked.stream = @ \o chunk_of(buf),
                          !.chunked.written = @ \o buf,
                          !.chunked.writes = @ + 1]
    /\ UNCHANGED <<backend, now, storage, cw, gp, cl, ghost, sf>>

\* response() of the chunked body: "0", CRLF, CRLF; it consumes the request
ChunkedResponse ==
    /\ ~app.chunked.closed
    /\ app' = [app EXCEPT !.chunked.stream = @ \o <<"0">> \o CRLF \o CRLF,
                          !.chunked.closed = TRUE]
    /\ UNCHANGED <<backend, now, storage, cw, gp, cl, ghost, sf>>

\* ---- the body reader of a response with a Content-Length header.
\* app.body: the declared length, the bytes the connection still holds for
\* this reader, the reader's fields, and the last read call (buf: the size of
\* the caller's buffer, before: bytes delivered before it, ret: its result).
MaxContentLength == 3
MaxStream == 4
MaxBuf == 3
IdleBody == [pc |-> "idle", n |-> 0, avail |-> 0, chunk_bytes_remaining |-> 0,
             is_eof |-> FALSE, delivered |-> 0, buf |-> 0, before |-> 0, ret |-> 0]

\* read_body after a Content-Length: n header, on a connection on which the
\* peer sends sent bytes of body before it closes
BodyOpen(n, sent) ==
    /\ app.body.pc \in {"idle", "read"}
    /\ app' = [app EXCEPT !.body = [IdleBody EXCEPT !.pc = "open", !.n = n, !.avail = sent,
                                                    !.chunk_bytes_remaining = n]]
    /\ UNCHANGED <<backend, now, storage, cw, gp, cl, ghost, sf>>

\* the results self.reader.read can give for a buffer of max_n bytes: 0 for
\* an empty buffer or at the end of the stream, else any count it can fill
reader_read(max_n, avail) ==
    IF max_n = 0 \/ avail = 0 THEN {0}
    ELSE 1..(IF max_n < avail THEN max_n ELSE avail)

\* Read::read of HttpMessageReader<R, ReadResponseBody>, FixedSize branch
BodyRead(len) ==
    /\ app.body.pc \in {"open", "read"}
    /\ LET b == app.body IN
       IF b.is_eof
       THEN app' = [app EXCEPT !.body.pc = "read", !.body.buf = len,
                               !.body.before = b.delivered, !.body.ret = 0]
       ELSE LET max_n == IF len < b.chunk_bytes_remaining THEN len
                         ELSE b.chunk_bytes_remaining IN
            \E k \in reader_read(max_n, b.avail) :
                app' = [app EXCEPT !.body.pc = "read", !.body.buf = len,
                                   !.body.before = b.delivered, !.body.ret = k,
                                   !.body.avail = @ - k,
                                   !.body.delivered = @ + k,
                                   !.body.chunk_bytes_remaining = @ - k,
                                   !.body.is_eof = (b.chunk_bytes_remaining - k = 0)]
    /\ UNCHANGED <<backend, now, storage, cw, gp, cl, ghost, sf>>

\* ---- the status line of a response.  A line is its first 8 bytes (version:
\* "HTTP/1.1", another version, or "" for a line that starts with the bytes of
\* rest) followed by rest, a sequence of the bytes " ", "2" (a digit) and "x".
MaxRest == 7
StatusBytes == {" ", "2", "x"}
Versions == {"HTTP/1.1", "HTTP/1.0", ""}
IdleStatus == [pc |-> "recv", version |-> "", rest |-> <<>>,
               result |-> [kind |-> "none", code |-> <<>>]]

\* str::trim_end on the bytes after the version
RECURSIVE trim_end(_)
trim_end(s) ==
    IF s # <<>> /\ s[Len(s)] = " " THEN trim_end(SubSeq(s, 1, Len(s) - 1)) ELSE s

\* HttpStatus::new on the line version \o rest: status_line.as_bytes()[8] is
\* rest[1] and as_bytes()[12] is rest[5]; an index past the end panics
new(version, rest) ==
    IF version # "HTTP/1.1" THEN [kind |-> "InvalidData", code |-> <<>>]
    ELSE IF Len(rest) < 1 THEN [kind |-> "panic", code |-> <<>>]
    ELSE IF rest[1] # " " THEN [kind |-> "InvalidData", code |-> <<>>]
    ELSE IF Len(rest) < 5 THEN [kind |-> "panic", code |-> <<>>]
    ELSE IF rest[5] # " " THEN [kind |-> "InvalidData", code |-> <<>>]
    ELSE IF \E i \in 2..4 : rest[i] # "2" THEN [kind |-> "InvalidData", code |-> <<>>]
    ELSE [kind |-> "ok", code |-> SubSeq(rest, 2, 4)]

\* a connection is opened and the server starts its status line
StatusConnect(version) ==
    /\ app.status.pc = "done"
    /\ app' = [app EXCEPT !.status = [IdleStatus EXCEPT !.version = version]]
    /\ UNCHANGED <<backend, now, storage, cw, gp, cl, ghost, sf>>

\* the server sends one more byte of the line
StatusByte(c) ==
    /\ app.status.pc = "recv"
    /\ Len(app.status.rest) < MaxRest
    /\ app' = [app EXCEPT !.status.rest = Append(@, c)]
    /\ UNCHANGED <<backend, now, storage, cw, gp, cl, ghost, sf>>

\* read_status: read_line, trim_end, HttpStatus::new
read_status ==
    /\ app.status.pc = "recv"
    /\ app' = [app EXCEPT !.status.pc = "done",
                          !.status.result = new(app.status.version,
                                                  trim_end(app.status.rest))]
    /\ UNCHANGED <<backend, now, storage, cw, gp, cl, ghost, sf>>

\* ---- the cleanup thread of the server and the main thread that shuts it
\* down.  app.task: the worker's position in its loop, the AtomicBool, the
\* park token of the thread, parked_since.elapsed() in ticks (capped), the
\* caches left in the running pass, and the main thread's position.
\* at: where the worker was when the flag was set.  skipped: the worker has
\* taken the `continue` of line 361 since parked_since was last set.
Interval == 2
NumCaches == 2
IdleTask == [pc |-> "loop", main |-> "serving", is_aborted |-> FALSE, token |-> FALSE,
             elapsed |-> 0, todo |-> 0, observed |-> FALSE, at |-> "none",
             skipped |-> FALSE]

\* thread().unpark(), mutated: the token is not made available
unpark_lost(token) == token

\* thread().unpark(): the token of the thread is made available
unpark(token) == TRUE

\* time passes
TaskTick ==
    /\ app.task.pc # "exited"
    /\ app.task.elapsed <= Interval
    /\ app' = [app EXCEPT !.task.elapsed = @ + 1]
    /\ UNCHANGED <<backend, now, storage, cw, gp, cl, ghost, sf>>

\* top of the loop: park_timeout is entered if checked_sub gives a duration
WorkerPark ==
    /\ app.task.pc = "loop"
    /\ app' = [app EXCEPT !.task.pc = IF app.task.elapsed <= Interval THEN "parked"
                                      ELSE "check"]
    /\ UNCHANGED <<backend, now, storage, cw, gp, cl, ghost, sf>>

\* park_timeout returns because the token is available, and consumes it
WorkerUnparked ==
    /\ app.task.pc = "parked"
    /\ app.task.token
    /\ app' = [app EXCEPT !.task.pc = "check", !.task.token = FALSE]
    /\ UNCHANGED <<backend, now, storage, cw, gp, cl, ghost, sf>>

\* park_timeout returns because the timeout has passed
WorkerTimeout ==
    /\ app.task.pc = "parked"
    /\ app.task.elapsed >= Interval
    /\ app' = [app EXCEPT !.task.pc = "check", !.task.token = FALSE]
    /\ UNCHANGED <<backend, now, storage, cw, gp, cl, ghost, sf>>

\* park_timeout returns spuriously
WorkerSpurious ==
    /\ app.task.pc = "parked"
    /\ app.task.elapsed < Interval
    /\ app' = [app EXCEPT !.task.pc = "check", !.task.token = FALSE]
    /\ UNCHANGED <<backend, now, storage, cw, gp, cl, ghost, sf>>

\* if is_aborted_rx.load(Ordering::Acquire) { break; }
WorkerLoad ==
    /\ app.task.pc = "check"
    /\ app' = [app EXCEPT !.task.pc = IF app.task.is_aborted THEN "exited" ELSE "due",
                          !.task.observed = app.task.is_aborted]
    /\ UNCHANGED <<backend, now, storage, cw, gp, cl, ghost, sf>>

\* the check of line 360, mutated: the pass starts whatever time has passed
WorkerDueAlways ==
    /\ app.task.pc = "due"
    /\ app' = [app EXCEPT !.task.pc = "cleaning", !.task.todo = NumCaches]
    /\ UNCHANGED <<backend, now, storage, cw, gp, cl, ghost, sf>>

\* if parked_since.elapsed() < self.cleanup_interval { continue; }, else
\* the pass over self.caches starts
WorkerDue ==
    /\ app.task.pc = "due"
    /\ app' = IF app.task.elapsed < Interval
              THEN [app EXCEPT !.task.pc = "loop", !.task.skipped = TRUE]
              ELSE [app EXCEPT !.task.pc = "cleaning", !.task.todo = NumCaches]
    /\ UNCHANGED <<backend, now, storage, cw, gp, cl, ghost, sf>>

\* clean_cache of the next cache returns, with Ok or with an error that is printed
WorkerClean ==
    /\ app.task.pc = "cleaning"
    /\ app.task.todo > 0
    /\ app' = [app EXCEPT !.task.todo = @ - 1]
    /\ UNCHANGED <<backend, now, storage, cw, gp, cl, ghost, sf>>

\* parked_since = Instant::now() after the pass
WorkerReset ==
    /\ app.task.pc = "cleaning"
    /\ app.task.todo = 0
    /\ app' = [app EXCEPT !.task.pc = "loop", !.task.elapsed = 0,
                          !.task.skipped = FALSE]
    /\ UNCHANGED <<backend, now, storage, cw, gp, cl, ghost, sf>>

\* abort(): self.is_aborted.store(true, Ordering::Release)
AbortStore ==
    /\ app.task.main = "serving"
    /\ app' = [app EXCEPT !.task.main = "stored", !.task.is_aborted = TRUE,
                          !.task.at = app.task.pc]
    /\ UNCHANGED <<backend, now, storage, cw, gp, cl, ghost, sf>>

\* abort(): self.join_handle.thread().unpark()
AbortUnpark ==
    /\ app.task.main = "stored"
    /\ app' = [app EXCEPT !.task.main = "joining", !.task.token = unpark(@)]
    /\ UNCHANGED <<backend, now, storage, cw, gp, cl, ghost, sf>>

\* join() returns when the thread has ended
TaskJoin ==
    /\ app.task.main = "joining"
    /\ app.task.pc = "exited"
    /\ app' = [app EXCEPT !.task.main = "joined"]
    /\ UNCHANGED <<backend, now, storage, cw, gp, cl, ghost, sf>>

\* ---- btdt restore.  app.cli: the --keys values after splitting at commas,
\* the keys the cache holds, the flag, and the exit code
MaxRawKeys == 3
RawKeyLists == UNION {[1..n -> ReqKeys \cup {""}] : n \in 1..MaxRawKeys}
IdleCli == [keys |-> <<"">>, present |-> {}, success_rc_on_any_key |-> FALSE,
            fails |-> FALSE, ran |-> FALSE, restored |-> "", rc |-> 0]

\* CacheEntriesRef::keys: the keys that are not empty
IsNotEmpty(k) == k # ""
keys_of(raw) == SelectSeq(raw, IsNotEmpty)

\* Pipeline::restore: the key of the hit of cache.get(keys), "" for None
RECURSIVE restore(_, _)
restore(keys, present) ==
    IF keys = <<>> THEN ""
    ELSE IF Head(keys) \in present THEN Head(keys)
    ELSE restore(Tail(keys), present)

\* the exit code of Commands::Restore; an error of restore ends main with 1
restore_rc(raw, present, success_rc_on_any_key, fails) ==
    LET restored_key == restore(keys_of(raw), present)
        primary_key == Head(raw) IN
    IF fails THEN 1
    ELSE IF restored_key # ""
    THEN IF ~success_rc_on_any_key /\ restored_key # primary_key THEN 3 ELSE 0
    ELSE 4

\* one run of btdt restore
CliRestore(raw, present, success_rc_on_any_key, fails) ==
    /\ app' = [app EXCEPT !.cli =
                 [keys |-> raw, present |-> present,
                  success_rc_on_any_key |-> success_rc_on_any_key,
                  fails |-> fails, ran |-> TRUE,
                  restored |-> IF fails THEN "" ELSE restore(keys_of(raw), present),
                  rc |-> restore_rc(raw, present, success_rc_on_any_key, fails)]]
    /\ UNCHANGED <<backend, now, storage, cw, gp, cl, ghost, sf>>

\* ---- decoding of a meta record of META_MAX_SIZE bytes, given by the
\* fields of MetaV1.  Seconds 0..MaxSecs and nanoseconds below NsecsLimit are
\* what DateTime::from_timestamp accepts.
MaxVersion == 3
MaxSecs == 2
NsecsLimit == 2
MetaRecords == [version : 0..MaxVersion, blob_id : BlobIds,
                latest_access : 0..(MaxSecs + 1), latest_access_nsecs : 0..NsecsLimit]
IdleDecode == [op |-> "none",
               rec |-> [version |-> 1, blob_id |-> 1, latest_access |-> 0,
                        latest_access_nsecs |-> 0],
               result |-> "none"]

\* Meta::from_bytes: rkyv::check_archived_root::<MetaV1> validates the layout
\* of the archive; every value of the integer fields passes
from_bytes(rec) == rec \in MetaRecords

\* Meta::latest_access: DateTime::from_timestamp(..).ok_or(..)
latest_access(rec) ==
    rec.latest_access <= MaxSecs /\ rec.latest_access_nsecs < NsecsLimit

\* what get and clean do with a record read by read_meta: get calls
\* from_bytes, set_latest_access and blob_id; clean calls from_bytes,
\* latest_access and blob_id
decode_for(op, rec) ==
    IF ~from_bytes(rec) THEN "InvalidData"
    ELSE IF op = "clean" /\ ~latest_access(rec) THEN "InvalidData"
    ELSE "ok"

\* get or clean reads a meta file that holds rec
MetaDecode(op, rec) ==
    /\ app' = [app EXCEPT !.decode = [op |-> op, rec |-> rec,
                                      result |-> decode_for(op, rec)]]
    /\ UNCHANGED <<backend, now, storage, cw, gp, cl, ghost, sf>>

\* ---- the body of a cache hit: AsyncReadAdapter of get_from_cache.rs.  A
\* blocking task reads the blob in chunks of at most ChunkSize bytes (1024 in
\* the source) and sends them over a channel of ChannelCap chunks (10 in the
\* source); poll_read hands the chunks to the HTTP body in pieces of the
\* caller's ReadBuf.  The blob of n bytes is <<1, .., n>>.
MaxBlobLen == 3
ChunkSize == 2
ChannelCap == 2
MaxRead == 4
MaxOut == 6
IdleStream == [pc |-> "idle", blob |-> <<>>, rpos |-> 0, tx |-> "none",
               chan |-> <<>>, buf |-> <<>>, buf_pos |-> 0, out |-> <<>>,
               eos |-> FALSE]

\* min of std::cmp
min(a, b) == IF a <= b THEN a ELSE b

\* From<CacheHit> for GetFromCacheResponse, AsyncReadAdapter::new: the
\* channel is created, the blocking task spawned, buf is empty
StreamOpen(n) ==
    /\ app.stream.pc = "idle"
    /\ app' = [app EXCEPT !.stream =
                  [IdleStream EXCEPT !.pc = "open", !.blob = [i \in 1..n |-> i],
                                     !.tx = "open"]]
    /\ UNCHANGED <<backend, now, storage, cw, gp, cl, ghost, sf>>

\* the blocking task, Ok(n): reader.read fills n >= 1 bytes of the chunk
\* and blocking_send queues them when the channel has room
ProducerRead(n) ==
    /\ app.stream.tx = "open"
    /\ Len(app.stream.chan) < ChannelCap
    /\ n <= min(ChunkSize, Len(app.stream.blob) - app.stream.rpos)
    /\ app' = [app EXCEPT
                  !.stream.chan = Append(@, SubSeq(app.stream.blob, app.stream.rpos + 1,
                                                   app.stream.rpos + n)),
                  !.stream.rpos = @ + n]
    /\ UNCHANGED <<backend, now, storage, cw, gp, cl, ghost, sf>>

\* the blocking task, Ok(0): the loop breaks and tx is dropped
ProducerEof ==
    /\ app.stream.tx = "open"
    /\ app.stream.rpos = Len(app.stream.blob)
    /\ app' = [app EXCEPT !.stream.tx = "closed"]
    /\ UNCHANGED <<backend, now, storage, cw, gp, cl, ghost, sf>>

\* rx.poll_recv is Pending: the channel is empty and tx is alive
recv_pending(s) == s.buf_pos >= Len(s.buf) /\ s.chan = <<>> /\ s.tx = "open"

\* the bytes the statement after put_slice adds to buf_pos: buf.remaining()
\* of the ReadBuf that the copied bytes have already been put into
advance(remaining, copied) == remaining - copied

\* AsyncReadAdapter::poll_read with a ReadBuf of `remaining` free bytes
poll_read(s, remaining) ==
    LET recv   == s.buf_pos >= Len(s.buf)
        closed == recv /\ s.chan = <<>>
        data   == IF recv /\ ~closed THEN Head(s.chan) ELSE s.buf
        pos    == IF recv /\ ~closed THEN 0 ELSE s.buf_pos
        upto   == min(pos + remaining, Len(data))
        slice  == SubSeq(data, pos + 1, upto)
    IN  IF closed
        THEN [s EXCEPT !.eos = TRUE]
        ELSE [s EXCEPT !.chan = IF recv THEN Tail(@) ELSE @,
                       !.buf = data,
                       !.buf_pos = pos + advance(remaining, Len(slice)),
                       !.out = @ \o slice]

\* the body polls the adapter until it reports the end of the stream
PollRead(remaining) ==
    /\ app.stream.pc = "open"
    /\ ~app.stream.eos
    /\ Len(app.stream.out) < MaxOut
    /\ ~recv_pending(app.stream)
    /\ app' = [app EXCEPT !.stream = poll_read(app.stream, remaining)]
    /\ UNCHANGED <<backend, now, storage, cw, gp, cl, ghost, sf>>

\* ---- the files of a cache directory by their names, and the sweep of
\* btdt clean.  A file name is the sequence of its '.' characters and of the
\* dot-free words between them.  app.dir: the key that is being named and
\* then published, which files of its entry exist, the staging file of a
\* later set on the key ("held": its writer is alive and holds the lock,
\* "leftover": the writer's process was killed), the sweeps that have run.
TMP_FILE_SUFFIX_ENCODED_LEN == 7
Words == {"k", "tmp", "abcdefg"}
MaxToks == 5
BlobName == <<"abcdefg">>
IdleDir == [pc |-> "naming", key |-> <<>>, meta |-> FALSE, blob |-> FALSE,
            temp |-> "none", swept |-> 0]

\* the text of a file name
RECURSIVE Text(_)
Text(name) == IF name = <<>> THEN "" ELSE Head(name) \o Text(Tail(name))

\* the position of the last '.' before position n, 0 if there is none
RECURSIVE rfind(_, _)
rfind(name, n) ==
    IF n <= 1 THEN 0
    ELSE IF name[n - 1] = "." THEN n - 1 ELSE rfind(name, n - 1)

\* file_name.rsplitn(3, '.'), its first two items: suffix, and ext as <<>>
\* for None or <<text>> for Some(text)
rsplitn(name) ==
    LET last == rfind(name, Len(name) + 1)
        prev == rfind(name, last) IN
    [suffix |-> Text(SubSeq(name, last + 1, Len(name))),
     ext    |-> IF last = 0 THEN <<>> ELSE <<Text(SubSeq(name, prev + 1, last - 1))>>]

\* the name test of clean_leftover_tmp_files
is_leftover_name(name) ==
    /\ rsplitn(name).ext = <<"tmp">>
    /\ Len(rsplitn(name).suffix) = TMP_FILE_SUFFIX_ENCODED_LEN

\* StagedFile::new_with_suffix: format!("{}.tmp.{}", filename, suffix)
tmp_file_name(name, suffix) == name \o <<".", "tmp", ".", suffix>>

\* clean_leftover_tmp_files on one file entry: the file stays unless its name
\* passes the test and try_lock_exclusive succeeds
survives(exists, name, locked) == exists /\ ~(is_leftover_name(name) /\ ~locked)

\* the caller chooses the text of the key
DirKeyToken(t) ==
    /\ app.dir.pc = "naming"
    /\ Len(app.dir.key) < MaxToks
    /\ app' = [app EXCEPT !.dir.key = Append(@, t)]
    /\ UNCHANGED <<backend, now, storage, cw, gp, cl, ghost, sf>>

\* set([key]) and close: the blob file and the meta file of meta_path(key),
\* whose file name is the key, are published
DirPublish ==
    /\ app.dir.pc = "naming"
    /\ app.dir.key # <<>>
    /\ app' = [app EXCEPT !.dir.pc = "published", !.dir.meta = TRUE, !.dir.blob = TRUE]
    /\ UNCHANGED <<backend, now, storage, cw, gp, cl, ghost, sf>>

\* a later set([key]): FilesystemStorage::put creates the staging file of
\* the meta file and locks it
DirStage ==
    /\ app.dir.pc = "published"
    /\ app.dir.temp = "none"
    /\ app' = [app EXCEPT !.dir.temp = "held"]
    /\ UNCHANGED <<backend, now, storage, cw, gp, cl, ghost, sf>>

\* the process of the writer is killed: the lock goes, the file stays
DirKill ==
    /\ app.dir.temp = "held"
    /\ app' = [app EXCEPT !.dir.temp = "leftover"]
    /\ UNCHANGED <<backend, now, storage, cw, gp, cl, ghost, sf>>

\* Commands::Clean: cache.into_storage().clean_leftover_tmp_files() visits
\* every file below the root of the cache
DirSweep ==
    /\ app.dir.pc = "published"
    /\ app.dir.swept < MaxSweeps
    /\ app' = [app EXCEPT
          !.dir.meta = survives(@, app.dir.key, FALSE),
          !.dir.blob = survives(@, BlobName, FALSE),
          !.dir.temp = IF survives(@ # "none", tmp_file_name(app.dir.key, "abcdefg"),
                                   @ = "held")
                       THEN @ ELSE "none",
          !.dir.swept = @ + 1]
    /\ UNCHANGED <<backend, now, storage, cw, gp, cl, ghost, sf>>

InitApp ==
    [fsop |-> [op |-> "none", path |-> <<>>, result |-> "none", touched |-> <<>>,
               issued |-> FALSE],
     auth |-> [token |-> [kind |-> "missing", checks |-> {}], operation |-> "none",
               cache_id |-> "none", at |-> 0, status |-> 0],
     srv  |-> IdleSrv,
     remote |-> IdleRemote,
     chunked |-> IdleChunked,
     body |-> IdleBody,
     status |-> IdleStatus,
     task |-> IdleTask,
     cli |-> IdleCli,
     decode |-> IdleDecode,
     stream |-> IdleStream,
     dir |-> IdleDir]

Init ==
    /\ backend \in Backends
    /\ now = 0
    /\ storage = [files |-> [p \in Paths |-> Absent],
                  dirs  |-> {RootDir},
                  sw    |-> [j \in SWIds |-> NoWriter]]
    /\ cw = [w \in BlobIds |-> NoCW]
    /\ gp = IdleGet
    /\ cl = IdleClean
    /\ ghost = [calls      |-> 0,
                lastSet    |-> [k \in Keys |-> 0],
                published  |-> [k \in Keys |-> NoPub],
                lastClosed |-> 0,
                rawClosed  |-> [r \in RawIds |-> FALSE],
                rawStream  |-> [r \in RawIds |-> <<>>]]
    /\ sf = InitStaged
    /\ app = InitApp

StorageNext ==
    \/ \E r \in RawIds : RawPut(r)
    \/ \E r \in RawIds : RawWrite(r)
    \/ \E r \in RawIds : RawClose(r)
    \/ RawDelete

StorageSpec == Init /\ [][StorageNext]_vars

\* ---- the cache used by concurrent callers (server handlers, the cleanup
\* thread, other processes on the same storage)

\* the calls in progress: a get, a clean, a close
InProgress ==
    (IF gp.pc # "idle" THEN 1 ELSE 0) + (IF cl.pc # "idle" THEN 1 ELSE 0)
    + Cardinality({w \in BlobIds : cw[w].state = "closing"})

\* calls that are one step
CallAtomic ==
    \/ \E keys \in KeyLists : Set(keys)
    \/ \E w \in BlobIds : CWWrite(w)
    \/ Tick

\* first steps of the calls that take several steps
CallStart ==
    \/ \E w \in BlobIds : CWCloseBlob(w)
    \/ \E keys \in KeyLists : GetStart(keys)
    \/ \E age \in AgeOpts, size \in SizeOpts : CleanStart(age, size)

CallStep ==
    \/ \E w \in BlobIds : CWCloseMeta(w)
    \/ GetReadMeta
    \/ GetPut
    \/ GetPublish
    \/ GetBlob
    \/ GetReturn
    \/ CleanListBlobs
    \/ CleanListMeta
    \/ CleanScan
    \/ CleanDelMeta
    \/ CleanDelBlob
    \/ CleanReturn

Next ==
    \/ CallAtomic
    \/ InProgress < MaxConcurrent /\ CallStart
    \/ CallStep

Spec == Init /\ [][Next]_vars

\* ---- the cache used by one caller at a time: a call runs to its return
\* before the next call starts (writers stay open between calls)
SeqNext ==
    \/ InProgress = 0 /\ (CallAtomic \/ CallStart)
    \/ CallStep

SeqSpec == Init /\ [][SeqNext]_vars

\* ---- one caller at a time, and between the calls a client of the storage
\* that deletes blob files behind the cache's back (as the test
\* test_key_without_blob_is_handled_gracefully does)
DeleteBlobDirectly(b) ==
    /\ StExistsFile(storage, blob_path(b))
    /\ storage' = StDelete(storage, blob_path(b))
    /\ ghost' = [ghost EXCEPT !.published =
                   [k \in Keys |-> IF ghost.published[k].w = b THEN NoPub ELSE @[k]]]
    /\ UNCHANGED <<app, sf, backend, now, cw, gp, cl>>

SeqLossNext ==
    \/ SeqNext
    \/ InProgress = 0 /\ \E b \in BlobIds : DeleteBlobDirectly(b)

SeqLossSpec == Init /\ [][SeqLossNext]_vars

\* ---- one caller at a time, and a second process whose clean pass deletes
\* meta and blob files of the same cache while this process's clean runs
CachePaths == {meta_path(k) : k \in Keys} \cup {blob_path(b) : b \in BlobIds}

\* a storage.delete of the other process's eviction loop
OtherPassDeletes(p) ==
    /\ cl.pc \notin {"idle", "done"}
    /\ StExistsFile(storage, p)
    /\ storage' = StDelete(storage, p)
    /\ ghost' = ClearPublished(ghost, {k \in Keys : p = meta_path(k)
                                                    \/ p = blob_path(ghost.published[k].w)})
    /\ UNCHANGED <<app, sf, backend, now, cw, gp, cl>>

SeqRaceNext ==
    \/ SeqNext
    \/ \E p \in CachePaths : OtherPassDeletes(p)

SeqRaceSpec == Init /\ [][SeqRaceNext]_vars

\* ---- one caller at a time, on a filesystem whose renames and writes can
\* fail while a CacheWriter is closed
SeqFailNext ==
    \/ SeqNext
    \/ InProgress = 0 /\ \E w \in BlobIds : CWCloseBlobFails(w)
    \/ \E w \in BlobIds, at \in FailurePoints : CWCloseMetaFails(w, at)

SeqFailSpec == Init /\ [][SeqFailNext]_vars

\* ---- one caller at a time, among them uploads that break off before the
\* writer is closed
SeqDropNext ==
    \/ SeqNext
    \/ InProgress = 0 /\ \E keys \in KeyLists, n \in 0..MaxLen : PutAbandoned(keys, n)

SeqDropSpec == Init /\ [][SeqDropNext]_vars

\* ---- processes creating, writing and closing StagedFiles for one target
\* while clean_leftover_tmp_files runs on the directory
SweepNext ==
    \/ \E w \in SFWriters : NewCreate(w)
    \/ \E w \in SFWriters : NewLock(w)
    \/ \E w \in SFWriters : NewCheck(w)
    \/ \E w \in SFWriters : StagedWrite(w)
    \/ \E w \in SFWriters : StagedClose(w)
    \/ \E w \in SFWriters : StagedDrop(w)
    \/ SweepStart
    \/ \E p \in SFPaths : SweepEntry(p)
    \/ SweepRemove
    \/ SweepReturn

\* StagedFile is the writer of the filesystem back-end
SweepInit == Init /\ backend = "fs"

SweepSpec == SweepInit /\ [][SweepNext]_vars

\* ---- operations of FilesystemStorage on arbitrary paths
PathNext ==
    \E op \in {"get", "put", "delete", "list", "exists_file"}, path \in PathStrings :
        FsOp(op, path)

PathSpec == SweepInit /\ [][PathNext]_vars

\* ---- authorize calls with arbitrary tokens while the clock advances
AuthNext ==
    \/ \E token \in Tokens, operation \in {"get", "put"}, cache_id \in CacheIds :
          AuthorizeCall(token, operation, cache_id)
    \/ Tick

AuthSpec == SweepInit /\ [][AuthNext]_vars

\* ---- the server handling requests one at a time on one configured cache
ServerNext ==
    \/ \E method \in {"get", "put"}, cache_id \in CacheIds, token \in SrvTokens,
          keys \in KeyLists : SrvRequest(method, cache_id, token, keys)
    \/ app.srv.pc = "get" /\ GetStart(app.srv.keys)
    \/ app.srv.pc = "put" /\ Used = app.srv.base /\ Set(app.srv.keys)
    \/ app.srv.pc = "put" /\ \E w \in BlobIds : CWWrite(w)
    \/ app.srv.pc = "put" /\ \E w \in BlobIds : CWCloseBlob(w)
    \/ \E w \in BlobIds : CWCloseMeta(w)
    \/ GetReadMeta
    \/ GetPut
    \/ GetPublish
    \/ GetBlob
    \/ SrvRespondGet
    \/ SrvRespondPut
    \/ app.srv.pc \in {"idle", "done"} /\ Tick

ServerSpec == Init /\ [][ServerNext]_vars

\* ---- calls of RemoteCache::get against a server that answers anything
RemoteNext ==
    \/ \E keys \in ReqKeyLists : RemoteRequest(keys)
    \/ \E resp \in Responses : RemoteResponse(resp)

RemoteSpec == SweepInit /\ [][RemoteNext]_vars

\* ---- one request with a chunked body: writes, then response()
ChunkedNext ==
    \/ \E buf \in Buffers : ChunkedWrite(buf)
    \/ ChunkedResponse

ChunkedSpec == SweepInit /\ [][ChunkedNext]_vars

\* ---- responses with a Content-Length, read with buffers of any size
BodyNext ==
    \/ \E n \in 0..MaxContentLength, sent \in 0..MaxStream : BodyOpen(n, sent)
    \/ \E len \in 0..MaxBuf : BodyRead(len)

BodySpec == SweepInit /\ [][BodyNext]_vars

\* ---- status lines of any content, sent to read_status
StatusNext ==
    \/ \E version \in Versions : StatusConnect(version)
    \/ \E c \in StatusBytes : StatusByte(c)
    \/ read_status

StatusSpec == SweepInit /\ [][StatusNext]_vars

\* ---- runs of btdt restore on caches holding any of the keys
CliNext ==
    \E raw \in RawKeyLists, present \in SUBSET ReqKeys,
       success_rc_on_any_key \in BOOLEAN, fails \in BOOLEAN :
        CliRestore(raw, present, success_rc_on_any_key, fails)

CliSpec == SweepInit /\ [][CliNext]_vars

\* ---- get and clean reading meta files with any field values
MetaNext ==
    \E op \in {"get", "clean"}, rec \in MetaRecords : MetaDecode(op, rec)

MetaSpec == SweepInit /\ [][MetaNext]_vars

\* ---- the streaming of the body of a cache hit
StreamNext ==
    \/ \E n \in 0..MaxBlobLen : StreamOpen(n)
    \/ \E n \in 1..ChunkSize : ProducerRead(n)
    \/ ProducerEof
    \/ \E remaining \in 1..MaxRead : PollRead(remaining)

StreamSpec == SweepInit /\ [][StreamNext]_vars

\* ---- btdt clean on a cache directory whose keys the callers choose
DirNext ==
    \/ \E t \in Words \cup {"."} : DirKeyToken(t)
    \/ DirPublish
    \/ DirStage
    \/ DirKill
    \/ DirSweep

DirSpec == SweepInit /\ [][DirNext]_vars

\* ---- the cleanup thread and the shutdown of the server
\* steps of the cleanup thread that the scheduler will let it take; a
\* timeout can be arbitrarily far away and a spurious return need not happen
TaskWorker ==
    \/ WorkerPark
    \/ WorkerUnparked
    \/ WorkerLoad
    \/ WorkerDue
    \/ WorkerClean
    \/ WorkerReset

\* steps of the main thread once abort() has been called
TaskMain ==
    \/ AbortUnpark
    \/ TaskJoin

TaskNext ==
    \/ TaskWorker
    \/ TaskMain
    \/ WorkerTimeout
    \/ WorkerSpurious
    \/ AbortStore
    \/ TaskTick

TaskSpec == SweepInit /\ [][TaskNext]_vars

\* the threads are scheduled: a step that stays possible is taken
TaskFairSpec == SweepInit /\ [][TaskNext]_vars /\ WF_vars(TaskWorker) /\ WF_vars(TaskMain)

\* ================================================================== claims

\* what an observer of path p sees: get, exists_file, and p's entry in list
Observed(st, p) ==
    <<StGet(st, p), StExistsFile(st, p), {e \in StList(st, p[1]) : e.path = p /\ ~e.tmp}>>

\* a step after which its writer is still open: a put or a write
UnclosedWriterStep ==
    \E r \in RawIds : /\ storage'.sw[RawW(r)].open
                      /\ storage'.sw[RawW(r)] # storage.sw[RawW(r)]

\* the streams of the writers on RawPath whose close has returned
ClosedStreams == {ghost.rawStream[r] : r \in {q \in RawIds : ghost.rawClosed[q]}}

\* C3 (staged put): a put, or a write through a put writer, changes nothing
\* of what get, exists_file and list show at the target path; only a close
\* does.
C3_StagedPut ==
    [][UnclosedWriterStep => Observed(storage', RawPath) = Observed(storage, RawPath)]_vars

\* C4 (atomic publish under concurrency): with several put writers on one
\* path, a reader finds the path absent (its previous state) or holding the
\* complete stream of one writer that has closed; once all writers have
\* closed it holds the stream of the writer that closed last.
C4_AtomicPublish ==
    LET f == StGet(storage, RawPath) IN
    /\ f.exists => f.data \in ClosedStreams
    /\ (\A r \in RawIds : ghost.rawClosed[r]) => f = FileOf(ghost.rawStream[ghost.lastClosed])

\* the keys whose meta file holds a record that references blob b
KeysReferencing(st, b) ==
    {k \in Keys : /\ read_meta(st, meta_path(k)).kind = "ok"
                  /\ read_meta(st, meta_path(k)).meta.blob_id = b}

\* the step of clean that deletes a blob file
CleanDeletesBlob(b) ==
    /\ cl.pc = "delblob" /\ cl' # cl /\ cl.cur.blob_id = b
    /\ StExistsFile(storage, blob_path(b)) /\ ~StExistsFile(storage', blob_path(b))

\* C5 (no live meta at blob deletion): at the moment clean deletes a blob
\* file, whatever get and set calls are interleaved with the pass, no meta
\* file in storage references that blob.
C5_NoLiveMetaAtBlobDelete ==
    [][\A b \in BlobIds : CleanDeletesBlob(b) => KeysReferencing(storage, b) = {}]_vars

\* C6 (write visibility): a get([k]) that looks k up while the close of
\* writer w has returned for k (k not set again, not evicted) reads w's meta
\* record, and having read it returns w's bytes when it opens the blob, also
\* when other calls were in flight during the close.
C6_WriteVisibility ==
    [][\A k \in Keys :
         (gp.keys = <<k>> /\ gp' # gp /\ ghost.published[k].w # 0)
         => /\ gp.pc = "read" => (gp'.pc = "put" /\ gp'.meta.blob_id = ghost.published[k].w)
            /\ (gp.pc = "blob" /\ gp.meta.blob_id = ghost.published[k].w)
               => gp'.result = Hit(k, ghost.published[k].data)]_vars

\* C7 (atomic meta publication): whenever a reader looks at a key's meta
\* file, it finds no file or a complete record, never an empty or partial
\* file under the final name.
C7_MetaAtomic == \A k \in Keys : ~Undecodable(storage, k)

\* ---- the cache, one call at a time

\* C1 (round trip): after set(K), writes and a successful close, get([k])
\* for a k of K that has not been set again or evicted returns a hit for k
\* whose content is the bytes written.
C1_RoundTrip ==
    \A k \in Keys :
        (gp.pc = "done" /\ gp.keys = <<k>> /\ ghost.published[k].w # 0)
        => gp.result = Hit(k, ghost.published[k].data)

\* a get([k]) has returned the non-empty bytes of a writer closed for two keys
C1_Witness ==
    /\ gp.pc = "done" /\ Len(gp.keys) = 1
    /\ ghost.published[1].w # 0 /\ ghost.published[1].w = ghost.published[2].w
    /\ gp.result = Hit(gp.keys[1], <<Payload(ghost.published[1].w)>>)

\* C2 (preference order): get(keys) returns the hit of the first key in list
\* order whose meta record exists and resolves to an existing blob, and none
\* exactly when no key of the list resolves (a meta file that is no record
\* stops the call with an error before that).
C2_PreferenceOrder == gp.pc = "done" => gp.result = Expected(storage, gp.keys)

\* a get of two keys has returned the hit of the second: the first has a
\* meta record whose blob is missing
C2_Witness ==
    /\ gp.pc = "done" /\ Len(gp.keys) = 2
    /\ read_meta(storage, meta_path(gp.keys[1])).kind = "ok"
    /\ ~Resolves(storage, gp.keys[1])
    /\ gp.result.kind = "hit" /\ gp.result.key = gp.keys[2]

\* the blob files in storage
BlobsInStorage(st) == {b \in BlobIds : StExistsFile(st, blob_path(b))}

RECURSIVE SizeSum(_, _)
SizeSum(st, bs) ==
    IF bs = {} THEN 0
    ELSE LET b == CHOOSE x \in bs : TRUE IN
         Len(StGet(st, blob_path(b)).data) + SizeSum(st, bs \ {b})

\* C8 (eviction by age): after clean(age, size) has returned Ok with age
\* set, every blob remaining in storage has a key whose latest_access is at
\* least now - age.
C8_EvictionByAge ==
    (cl.pc = "done" /\ cl.ok /\ cl.age # NoLimit)
    => \A b \in BlobsInStorage(storage) :
          \E k \in KeysReferencing(storage, b) :
             read_meta(storage, meta_path(k)).meta.latest_access >= now - cl.age

\* C9 (eviction by size): after clean(age, size) has returned Ok with size
\* set, the sizes of all blobs remaining in storage sum to at most size.
C9_EvictionBySize ==
    (cl.pc = "done" /\ cl.ok /\ cl.size # NoLimit)
    => SizeSum(storage, BlobsInStorage(storage)) <= cl.size

\* no meta record in storage references a blob that is missing
NoDanglingMeta(st) ==
    \A k \in Keys : read_meta(st, meta_path(k)).kind = "ok" => Resolves(st, k)

\* the keys whose meta record references a blob that is missing
DanglingKeys(st) ==
    {k \in Keys : read_meta(st, meta_path(k)).kind = "ok" /\ ~Resolves(st, k)}

\* a clean pass removes a key only if its meta record references the blob the
\* pass is removing, a pass that goes on after removing keys removes their
\* blob, and when the blob is removed no remaining meta record references it
CleanRemovesKeysWithBlobs ==
    /\ \A k \in Keys :
          (cl.pc = "delmeta" /\ cl' # cl /\ StExistsFile(storage, meta_path(k))
           /\ ~StExistsFile(storage', meta_path(k)))
          => k \in KeysReferencing(storage, cl.cur.blob_id)
    /\ (cl.pc = "delmeta" /\ cl' # cl /\ cl'.ok) => cl'.pc \in {"delmeta", "delblob"}
    /\ (cl.pc = "delblob" /\ cl' # cl /\ cl'.ok)
          => ~StExistsFile(storage', blob_path(cl.cur.blob_id))
    /\ \A b \in BlobIds : CleanDeletesBlob(b) => KeysReferencing(storage, b) = {}

\* C10 as stated (meta/blob consistency after eviction): the keys a clean
\* pass removed are exactly the keys that referenced the blobs it removed, and
\* when the pass has returned Ok no meta record remaining in storage
\* references a blob that is missing.
C10_AsStated ==
    [][/\ CleanRemovesKeysWithBlobs
       /\ (cl'.pc = "done" /\ cl'.ok) => NoDanglingMeta(storage')]_vars

\* C10, amended: the keys a clean pass removed are exactly the keys that
\* referenced the blobs it removed, and no step of the pass leaves a meta
\* record referencing a missing blob that did not do so before the step
\* (records whose blob was already missing stay as they are).
C10_MetaBlobConsistency ==
    [][/\ CleanRemovesKeysWithBlobs
       /\ cl' # cl => DanglingKeys(storage') \subseteq DanglingKeys(storage)]_vars

\* a clean has returned Ok after removing both keys of a published blob, and
\* the blob
C10_Witness ==
    /\ cl.pc = "done" /\ cl.ok
    /\ \E w \in BlobIds : /\ cw[w].state = "closed"
                          /\ ghost.lastSet[1] = w /\ ghost.lastSet[2] = w
                          /\ ~StExistsFile(storage, blob_path(w))
                          /\ ~StExistsFile(storage, meta_path(1))
                          /\ ~StExistsFile(storage, meta_path(2))

\* the latest_access stored in key k's meta record
LatestAccess(st, k) == read_meta(st, meta_path(k)).meta.latest_access

\* blob b has a key whose latest_access is at least t
HasKeySince(st, b, t) == \E k \in KeysReferencing(st, b) : LatestAccess(st, k) >= t

\* a clean pass with only an age limit is under way
AgeOnlyPass == cl.pc \notin {"idle", "done"} /\ cl.age # NoLimit /\ cl.size = NoLimit

\* C11 (shared blob retention): no step of a clean pass with only an age
\* limit removes a blob, or any key of a blob, that has at least one key with
\* latest_access >= now - age, keys older than the limit included.
C11_SharedBlobRetention ==
    [][\A b \in BlobIds :
         (AgeOnlyPass /\ cl' # cl /\ StExistsFile(storage, blob_path(b))
          /\ HasKeySince(storage, b, now - cl.age))
         => /\ StExistsFile(storage', blob_path(b))
            /\ KeysReferencing(storage', b) = KeysReferencing(storage, b)]_vars

\* a clean with only an age limit has returned Ok and a blob is still there
\* with both its keys, one of them older than the limit
C11_Witness ==
    /\ cl.pc = "done" /\ cl.ok /\ cl.age # NoLimit /\ cl.size = NoLimit
    /\ \E b \in BlobIds :
          /\ StExistsFile(storage, blob_path(b))
          /\ KeysReferencing(storage, b) = {1, 2}
          /\ \E k \in {1, 2} : LatestAccess(storage, k) < now - cl.age

\* C12 (last-access monotonicity): under the one non-decreasing clock, the
\* latest_access stored in a key's meta record never decreases from one
\* state of the storage to the next, whatever set, close and get do to it.
C12_LastAccessMonotone ==
    [][\A k \in Keys :
         (/\ read_meta(storage, meta_path(k)).kind = "ok"
          /\ read_meta(storage', meta_path(k)).kind = "ok")
         => LatestAccess(storage', k) >= LatestAccess(storage, k)]_vars

\* C13 (dangling meta): a key whose meta record exists while its blob is
\* missing is a miss for that key only: a get that comes to it returns no
\* error for it and goes on, its result is that of the keys listed after it.
C13_DanglingMetaIsMiss ==
    gp.pc = "done" =>
        \A i \in DOMAIN gp.keys :
            (/\ gp.keys[i] \in DanglingKeys(storage)
             /\ \A j \in 1..(i - 1) : /\ ~Resolves(storage, gp.keys[j])
                                      /\ ~Undecodable(storage, gp.keys[j]))
            => gp.result = Expected(storage, SubSeq(gp.keys, i + 1, Len(gp.keys)))

\* a get of the one key whose blob is missing has returned none
C13_Witness ==
    /\ gp.pc = "done" /\ Len(gp.keys) = 1
    /\ gp.keys[1] \in DanglingKeys(storage)
    /\ gp.result = Miss

\* C14 (get error policy): the one error a get surfaces for a meta file that
\* cannot be decoded as a full record is InvalidData.
C14_UndecodableIsInvalidData ==
    (gp.pc = "done" /\ gp.result = Failed) => gp.err = "InvalidData"

\* C15 (live writers and the sweeper): a StagedFile that was returned to its
\* caller has its temp file, whatever clean_leftover_tmp_files did meanwhile,
\* and a close that has returned has published the written content.
C15_LiveWriterKeepsTempFile ==
    \A w \in SFWriters :
        /\ sf.wr[w].pc = "returned" => sf.files[tmp_path(w)]
        /\ (sf.wr[w].pc = "done" /\ sf.wr[w].attempts < Attempts) => sf.wr[w].result = "ok"

C17_UnreferencedBlobsReclaimed ==
    (cl.pc = "done" /\ cl.ok /\ (cl.age # NoLimit \/ cl.size # NoLimit))
    => \A b \in BlobIds :
          (cw[b].state = "closed" /\ StExistsFile(storage, blob_path(b)))
          => KeysReferencing(storage, b) # {}

\* the keys among the first n of the list that no later set has named
OwnKeys(w, keys, n) == {keys[j] : j \in {x \in 1..n : ghost.lastSet[keys[x]] = w}}

\* C18 (publication order of set): a step of CacheWriter::close on writer w
\* publishes the blob before any meta record and the meta records one key
\* at a time in list order; when the blob's close fails the blob is not
\* published and no key references it; when publishing the meta record of
\* the i-th key fails, the keys before it reference the new blob and the
\* keys from it on do not.
C18_PublicationOrder ==
    [][\A w \in BlobIds :
         LET keys == cw[w].keys
             refs == KeysReferencing(storage', w) IN
         /\ (cw[w].state = "open" /\ cw'[w].state = "closing")
            => StExistsFile(storage', blob_path(w)) /\ refs = {}
         /\ (cw[w].state = "open" /\ cw'[w].state = "failed")
            => ~StExistsFile(storage', blob_path(w)) /\ refs = {}
         /\ (cw[w].state = "closing" /\ cw'[w].state \in {"closing", "closed"})
            => /\ StExistsFile(storage, blob_path(w)) => StExistsFile(storage', blob_path(w))
               /\ refs \subseteq {keys[j] : j \in 1..cw[w].next}
               /\ OwnKeys(w, keys, cw[w].next) \subseteq refs
         /\ (cw[w].state = "closing" /\ cw'[w].state = "failed")
            => /\ refs \subseteq {keys[j] : j \in 1..(cw[w].next - 1)}
               /\ OwnKeys(w, keys, cw[w].next - 1) \subseteq refs]_vars

\* the close of a set on two keys has failed at the second key's meta record:
\* the blob is there, the first key references it, the second does not
C18_Witness ==
    \E w \in BlobIds :
        /\ cw[w].state = "failed"
        /\ StExistsFile(storage, blob_path(w))
        /\ \E k1, k2 \in Keys :
              /\ ghost.lastSet[k1] = w /\ ghost.lastSet[k2] = w
              /\ k1 \in KeysReferencing(storage, w)
              /\ k2 \notin KeysReferencing(storage, w)

\* the key files still to be read are all records or gone
OnlyMissingFiles ==
    \A e \in cl.todo : ~e.tmp /\ read_meta(storage, e.path).kind \in {"ok", "notfound"}

\* C19 (concurrent cleanup): a step of a clean pass that reads or deletes a
\* meta or blob file which another pass has already deleted does not fail
\* the pass.
C19_CleanToleratesMissingFiles ==
    [][(cl.pc \in {"scan", "delmeta", "delblob"} /\ cl' # cl /\ OnlyMissingFiles)
       => cl'.ok]_vars

\* the key files still to be read are all records or staging files
OnlyStagingFiles ==
    \A e \in cl.todo : e.tmp \/ read_meta(storage, e.path).kind = "ok"

\* C20 (foreign files): a clean pass that meets *.tmp.<7 chars> staging files
\* among the entries of /meta goes on; they do not make it fail.
C20_CleanToleratesStagingFiles ==
    [][(cl.pc = "scan" /\ cl' # cl /\ OnlyStagingFiles) => cl'.ok]_vars

\* the path has a `..` component
HasParentDir(path) == \E i \in DOMAIN Components(path, <<>>, <<>>) :
                         Components(path, <<>>, <<>>)[i] = ParentDir

\* the directory entry lies in the storage root
InsideRoot(loc) == Len(loc) >= Len(Root.comps) /\ SubSeq(loc, 1, Len(Root.comps)) = Root.comps

\* C21 (path confinement): an operation on a path that is not absolute or has
\* a `..` component returns an error, and no operation issues a call on a
\* directory entry outside the storage root.
C21_PathConfinement ==
    LET f == app.fsop IN
    f.op # "none" =>
        /\ (f.path = <<>> \/ Head(f.path) # "/" \/ HasParentDir(f.path)) => f.result # "ok"
        /\ f.issued => InsideRoot(f.touched)

\* C23 (attenuation): a token with a check on an operation is denied for the
\* other operation, a token with a check on a cache is denied for every other
\* cache id, a token with a time bound that has passed is denied; a token
\* whose only check names the requested operation is accepted.
C23_AttenuationHonoured ==
    LET a == app.auth IN
    (a.operation # "none" /\ a.token.kind = "biscuit") =>
        /\ \A c \in a.token.checks :
              \/ (c.fact = "operation" /\ c.v # a.operation)
              \/ (c.fact = "cache" /\ c.v # a.cache_id)
              \/ (c.fact = "time" /\ c.bound < a.at)
              => a.status = 403
        /\ a.token.checks = {[fact |-> "operation", v |-> a.operation, bound |-> 0]}
           => a.status = 0

\* a token whose time bound has passed, and that is otherwise in order, was denied
C23_Witness ==
    LET a == app.auth IN
    /\ a.status = 403
    /\ a.token.checks = {[fact |-> "operation", v |-> a.operation, bound |-> 0],
                         [fact |-> "cache", v |-> a.cache_id, bound |-> 0],
                         [fact |-> "time", v |-> "$time", bound |-> a.at - 1]}

\* the token's policies deny the operation on the cache
Denies(token, method, cache_id) ==
    \E c \in token.checks : \/ (c.fact = "operation" /\ c.v # method)
                            \/ (c.fact = "cache" /\ c.v # cache_id)

\* C22 (authorization precedes access): a GET or PUT whose token is missing
\* or undecodable is answered 401, one whose token's policies deny it 403,
\* and the step that answers so ends the request and leaves the caches, their
\* readers and writers and every last-access time as they were.
C22_AuthorizationPrecedesAccess ==
    [][LET r == app'.srv IN
       (r # app.srv /\ r.pc # "idle"
        /\ (r.token.kind # "biscuit" \/ Denies(r.token, r.method, r.cache_id)))
       => /\ r.status = IF r.token.kind # "biscuit" THEN 401 ELSE 403
          /\ r.pc = "done"
          /\ storage' = storage /\ gp' = gp /\ cw' = cw]_vars

\* a GET for a key that is in the cache was answered 403
C22_Witness ==
    /\ app.srv.pc = "done" /\ app.srv.method = "get" /\ app.srv.status = 403
    /\ Resolves(storage, app.srv.keys[1])

\* C24 (server GET result mapping): an authorized GET is answered 404 for a
\* cache id that is not configured, 204 when no requested key hits, and
\* otherwise 200 with the blob of the first matching key as body and the
\* matched key in the Btdt-Cache-Key header.
C24_ServerGetMapping ==
    LET r == app.srv IN
    (r.pc = "done" /\ r.method = "get" /\ r.status \notin {401, 403}) =>
        IF r.cache_id \notin Configured THEN r.status = 404
        ELSE LET e == Expected(storage, r.keys) IN
             CASE e.kind = "none" -> r.status = 204
               [] e.kind = "hit" -> r.status = 200 /\ r.body = e.data /\ r.cache_key = e.key
               [] OTHER -> r.status = 500


\* the response carries a Btdt-Cache-Key header whose value is the key k
CarriesKey(resp, k) ==
    \E i \in 1..Len(resp.headers) :
        /\ eq_ignore_ascii_case(resp.headers[i].name, "btdt-cache-key")
        /\ resp.headers[i].value = k

\* C25: RemoteCache::get returns none for a 204 response and an HttpError with
\* the status for every status that is not 2xx; for another 2xx response it
\* returns a hit only if the response carries a Btdt-Cache-Key header whose
\* value is one of the requested keys, which is the key of the hit, and it
\* returns an error if the response carries no such header.
C25_RemoteGetMapping ==
    app.remote.pc = "done" /\ app.remote.keys # <<>> =>
        LET r == app.remote.result
            resp == app.remote.resp
            keys == app.remote.keys
            requested == {keys[i] : i \in 1..Len(keys)} IN
        /\ resp.status = 204 => r.kind = "none"
        /\ ~is_success(resp.status) =>
              r.kind = "err" /\ r.err = "HttpError" /\ r.status = resp.status
        /\ is_success(resp.status) /\ resp.status # 204 =>
              /\ r.kind = "hit" => r.key \in requested /\ CarriesKey(resp, r.key)
              /\ (~\E k \in requested : CarriesKey(resp, k)) => r.kind = "err"

\* a hit on the second requested key, named by the second header of a 200 response
C25_Witness ==
    /\ app.remote.pc = "done"
    /\ app.remote.resp.status = 200
    /\ Len(app.remote.keys) = 2
    /\ Len(app.remote.resp.headers) = 2
    /\ app.remote.result.kind = "hit"
    /\ app.remote.result.key = app.remote.keys[2]
    /\ app.remote.keys[1] # app.remote.keys[2]
    /\ ~eq_ignore_ascii_case(app.remote.resp.headers[1].name, "content-length")

\* HTTP/1.1 chunked decoding (RFC 9112, 7.1) of a byte stream without chunk
\* extensions and trailers: the data of the chunks, the number of zero-size
\* chunks, and whether the stream is a sequence of complete chunks with
\* nothing after a zero-size chunk
HexVal(c) == CHOOSE i \in 0..15 : HexDigits[i + 1] = c
IsHex(c) == \E i \in 1..16 : HexDigits[i] = c
RECURSIVE HexPrefix(_, _)
HexPrefix(s, n) ==
    IF n < Len(s) /\ IsHex(s[n + 1]) THEN HexPrefix(s, n + 1) ELSE n
RECURSIVE HexNumber(_)
HexNumber(ds) ==
    IF ds = <<>> THEN 0 ELSE 16 * HexNumber(SubSeq(ds, 1, Len(ds) - 1)) + HexVal(ds[Len(ds)])
StartsWithCRLF(s) == Len(s) >= 2 /\ s[1] = "CR" /\ s[2] = "LF"
RECURSIVE DecodeChunked(_, _)
DecodeChunked(s, data) ==
    IF s = <<>> THEN [ok |-> TRUE, data |-> data, zeros |-> 0]
    ELSE LET n == HexPrefix(s, 0)
             size == HexNumber(SubSeq(s, 1, n))
             body == SubSeq(s, n + 3, Len(s)) IN
         IF n = 0 \/ ~StartsWithCRLF(SubSeq(s, n + 1, Len(s)))
         THEN [ok |-> FALSE, data |-> data, zeros |-> 0]
         ELSE IF size = 0
         THEN [ok |-> body = CRLF, data |-> data, zeros |-> 1]
         ELSE IF Len(body) < size + 2 \/ ~StartsWithCRLF(SubSeq(body, size + 1, Len(body)))
         THEN [ok |-> FALSE, data |-> data, zeros |-> 0]
         ELSE DecodeChunked(SubSeq(body, size + 3, Len(body)),
                            data \o SubSeq(body, 1, size))

\* C26: after any sequence of writes on a chunked body, empty ones included,
\* the emitted bytes are complete chunks whose data is the concatenation of the
\* written buffers, and they hold a zero-size chunk exactly if response() was
\* called, then exactly one, at the end.
C26_ChunkedRoundTrip ==
    LET d == DecodeChunked(app.chunked.stream, <<>>) IN
    /\ d.ok
    /\ d.data = app.chunked.written
    /\ d.zeros = IF app.chunked.closed THEN 1 ELSE 0

\* response() after three writes: an empty one, one of 2 and one of 17 bytes
C26_Witness ==
    /\ app.chunked.closed
    /\ app.chunked.writes = 3
    /\ Len(app.chunked.written) = 19
    /\ Len(app.chunked.stream) = 7 + 23 + 5

\* C27: for a response with Content-Length n the body reader never delivers
\* more than n bytes, a read into a non-empty buffer returns 0 (end-of-file)
\* only when n bytes were delivered, and it does return 0 once they were.
C27_BoundedBody ==
    app.body.pc = "read" =>
        /\ app.body.delivered <= app.body.n
        /\ app.body.buf > 0 /\ app.body.ret = 0 => app.body.delivered = app.body.n
        /\ app.body.before = app.body.n => app.body.ret = 0

\* the line without its trailing white space is HTTP/1.1, a space, three
\* digits, and then nothing or a space and a reason phrase
WellFormedStatusLine(version, rest) ==
    LET t == trim_end(rest) IN
    /\ version = "HTTP/1.1"
    /\ Len(t) >= 4
    /\ t[1] = " "
    /\ \A i \in 2..4 : t[i] = "2"
    /\ Len(t) > 4 => t[5] = " "

\* C28: read_status returns an invalid-data error for every status line whose
\* first token is not HTTP/1.1 or whose status code is not three ASCII digits,
\* whatever its length, and returns the status for every well-formed line.
C28_StatusLineRejection ==
    app.status.pc = "done" =>
        IF WellFormedStatusLine(app.status.version, app.status.rest)
        THEN /\ app.status.result.kind = "ok"
             /\ app.status.result.code = <<"2", "2", "2">>
        ELSE app.status.result.kind = "InvalidData"

\* C29: once abort() has set the flag and unparked the worker, the cleanup
\* thread ends and join() returns; and after the worker has loaded the flag
\* as set, it starts no cleanup pass.
C29_CooperativeShutdown ==
    /\ (app.task.main = "joining") ~> (app.task.main = "joined")
    /\ [][app.task.observed => app'.task.pc # "cleaning"]_vars

\* join() has returned after an abort() that came while the worker was parked
C29_Witness ==
    /\ app.task.main = "joined"
    /\ app.task.at = "parked"
    /\ app.task.observed

\* C30: with the empty keys dropped from the requested list, btdt restore
\* exits with 4 if none of the requested keys is in the cache, with 0 if the
\* restored key is the first requested key or --success-rc-on-any-key is
\* given, and with 3 otherwise.
C30_RestoreExitCodes ==
    app.cli.ran /\ ~app.cli.fails =>
        LET requested == keys_of(app.cli.keys) IN
        app.cli.rc =
            IF \A i \in 1..Len(requested) : requested[i] \notin app.cli.present THEN 4
            ELSE IF app.cli.restored = Head(requested) THEN 0
            ELSE IF app.cli.success_rc_on_any_key THEN 0
            ELSE 3

\* C31: a StagedFile that is dropped without a close has renamed its temp
\* file onto the target, and as long as no StagedFile of the target was closed
\* or dropped, nothing exists at the target path.
C31_PublishOnDrop ==
    /\ \A w \in SFWriters :
          sf.wr[w].how = "drop" => sf.wr[w].result = "ok" /\ sf.files[TargetPath]
    /\ (\A w \in SFWriters : sf.wr[w].how = "none") => ~sf.files[TargetPath]

\* C32: a meta record whose version is not the known version 1, or whose
\* timestamp fields are not a valid time, is refused with InvalidData by get
\* and by clean.
C32_UnknownVersionRejected ==
    app.decode.op # "none" =>
        (app.decode.rec.version # 1 \/ ~latest_access(app.decode.rec)
            => app.decode.result = "InvalidData")

\* C33: a clean that is called with both limits unset returns Ok in the
\* step of the call and leaves every file of the storage as it is.
C33_CleanWithoutLimitsIsNoOp ==
    [][(cl.pc = "idle" /\ cl'.pc # "idle" /\ cl'.age = NoLimit /\ cl'.size = NoLimit)
          => (cl'.pc = "done" /\ cl'.ok /\ storage' = storage)]_vars

\* a clean without limits has returned Ok on a cache that holds a meta file
\* and a blob file
C33_Witness ==
    /\ cl.pc = "done"
    /\ cl.ok
    /\ cl.age = NoLimit
    /\ cl.size = NoLimit
    /\ \E k \in Keys : StExistsFile(storage, meta_path(k))
    /\ \E b \in BlobIds : StExistsFile(storage, blob_path(b))

\* the record in k's meta file
MetaOf(st, k) == read_meta(st, meta_path(k)).meta

\* C34: the record a get writes back for a key is the record it read with
\* latest_access set to the clock's time; when the get has returned a hit for
\* key k, k's meta file holds the time of the get and the id of the blob whose
\* bytes were returned; and no stored latest_access is ahead of the clock, so
\* that the stamps of successive gets do not decrease.
C34_TouchOnGet ==
    /\ [](gp.pc = "done" /\ gp.result.kind = "hit" =>
            /\ read_meta(storage, meta_path(gp.result.key)).kind = "ok"
            /\ LatestAccess(storage, gp.result.key) = now
            /\ gp.result.data
                 = StGet(storage, blob_path(MetaOf(storage, gp.result.key).blob_id)).data)
    /\ [](\A k \in Keys : read_meta(storage, meta_path(k)).kind = "ok"
                             => LatestAccess(storage, k) <= now)
    /\ [][gp.pc = "read" /\ gp'.pc = "put" =>
            /\ gp'.meta.blob_id = MetaOf(storage, gp.keys[gp.i]).blob_id
            /\ gp'.meta.latest_access = now]_vars

\* a get has hit key 1 after the clock advanced: key 1 carries the time of
\* the get, key 2 of the same blob still the time of the set
C34_Witness ==
    /\ gp.pc = "done"
    /\ gp.result.kind = "hit"
    /\ gp.result.key = 1
    /\ now > 0
    /\ LatestAccess(storage, 1) = now
    /\ read_meta(storage, meta_path(2)).kind = "ok"
    /\ LatestAccess(storage, 2) < now
    /\ MetaOf(storage, 2).blob_id = MetaOf(storage, 1).blob_id

\* the blobs that exist and are referenced by a key, and the latest_access of
\* such a blob: the maximum over its keys
Tracked(st) ==
    {b \in BlobIds : StExistsFile(st, blob_path(b)) /\ KeysReferencing(st, b) # {}}
MaxAccess(st, b) ==
    CHOOSE t \in {LatestAccess(st, k) : k \in KeysReferencing(st, b)} :
        \A k \in KeysReferencing(st, b) : LatestAccess(st, k) <= t

\* C35: the blob clean takes out next for removal carries the maximum of the
\* latest_access of its keys, and no other blob that is in the cache then has
\* a smaller one: blobs are removed in ascending order of latest_access, and
\* the blobs that stay are at least as recent as every removed blob.
C35_LeastRecentlyUsedFirst ==
    [][cl'.pc = "delmeta" /\ cl.pc # "delmeta" =>
          /\ cl'.cur.blob_id \in Tracked(storage')
          /\ cl'.cur.latest_access = MaxAccess(storage', cl'.cur.blob_id)
          /\ \A r \in Tracked(storage') :
                MaxAccess(storage', r) >= cl'.cur.latest_access]_vars

\* clean with an age limit is about to delete a blob while a blob that is
\* recent enough to stay is in the cache
C35_Witness ==
    /\ cl.pc = "delblob"
    /\ cl.age # NoLimit
    /\ cl.blobs # {}
    /\ \E r \in Tracked(storage) :
          /\ r # cl.cur.blob_id
          /\ MaxAccess(storage, r) > cl.cur.latest_access
          /\ MaxAccess(storage, r) >= now - cl.age

\* the cache writers that take part in a step, and the keys they were set for
WritersOfStep ==
    {w \in BlobIds : cw'[w] # cw[w] \/ storage'.sw[BW(w)] # storage.sw[BW(w)]}
KeysOfStep == UNION {Range(cw[w].keys) \cup Range(cw'[w].keys) : w \in WritersOfStep}

\* C36: a step of set, of a write or of the close of a cache writer changes
\* the result of get for no key outside the keys of that set; and the bytes
\* of a blob that a key resolves to never change while the key resolves to it.
C36_OverwriteAffectsOnlyWrittenKeys ==
    /\ [][gp' = gp /\ cl' = cl =>
            \A k \in Keys \ KeysOfStep :
                Expected(storage', <<k>>) = Expected(storage, <<k>>)]_vars
    /\ [][\A k \in Keys :
            (/\ Resolves(storage, k) /\ Resolves(storage', k)
             /\ MetaOf(storage', k).blob_id = MetaOf(storage, k).blob_id)
            => Expected(storage', <<k>>).data = Expected(storage, <<k>>).data]_vars

\* keys 1 and 2 shared a blob; a set of key 1 alone has been completed with
\* other bytes, and key 2 still resolves to the first blob
C36_Witness ==
    /\ ghost.published[1].w = 2
    /\ Resolves(storage, 1)
    /\ Resolves(storage, 2)
    /\ MetaOf(storage, 1).blob_id = 2
    /\ MetaOf(storage, 2).blob_id = 1
    /\ Expected(storage, <<1>>).data # Expected(storage, <<2>>).data

\* C37: the bytes the body of a cache hit has received are at every moment
\* the first bytes of the blob, in order and once each, and when the end of
\* the stream is reported they are the whole blob.
C37_StreamingFidelity ==
    LET s == app.stream
    IN  /\ Len(s.out) <= Len(s.blob)
        /\ s.out = SubSeq(s.blob, 1, Len(s.out))
        /\ s.eos => s.out = s.blob

\* C38: the cleanup thread starts a pass over the caches only when at least
\* cleanup.interval has passed since parked_since was set (at thread start
\* or at the end of the previous pass); when the worker is past park_timeout
\* before that and the abort flag is not set, it goes back to the top of the
\* loop without a pass.
C38_CleanupCadence ==
    /\ [][(app.task.pc # "cleaning" /\ app'.task.pc = "cleaning")
             => app.task.elapsed >= Interval]_vars
    /\ [][(app.task.pc = "due" /\ app.task.elapsed < Interval
              /\ app'.task.pc # app.task.pc)
             => (app'.task.pc = "loop" /\ app'.task.todo = 0)]_vars

\* a pass has started after an earlier return of park_timeout was ignored
C38_Witness ==
    /\ app.task.pc = "cleaning"
    /\ app.task.todo = NumCaches
    /\ app.task.skipped
    /\ ~app.task.is_aborted

\* C39: when a writer obtained from set(K) is dropped without close, a get
\* of each key of K gives afterwards what it gave before the set: the same
\* hit with the same bytes, or none.
C39_AbandonedWritesPublishNothing ==
    [][\A w \in BlobIds :
          (cw[w].state = "unused" /\ cw'[w].state = "dropped")
             => \A k \in Range(cw'[w].keys) :
                   Expected(storage', <<k>>) = Expected(storage, <<k>>)]_vars

\* C40: the meta file and the blob file of a published entry exist after
\* every sweep of clean_leftover_tmp_files, whatever the text of the key.
C40_SweeperTouchesOnlyStagingFiles ==
    app.dir.pc = "published" => (app.dir.meta /\ app.dir.blob)
====
